---- MODULE Spec2Model ----
(***************************************************************************)
(* validate_email: the SMTP probe of validate_email/smtp_check.py (Spec,   *)
(* and TimedSpec with the time of the socket operations taken), the MX     *)
(* resolution of validate_email/dns_check.py (DnsSpec), the EmailAddress   *)
(* constructor of validate_email/email_address.py (AddressSpec), and the   *)
(* entry points (EntrySpec): validate_email / validate_email_or_fail of    *)
(* validate_email/validate_email.py, which run the constructor, the        *)
(* format and blacklist checks, the resolution and the probe in turn, and  *)
(* mx_check of validate_email/mx_check.py with its own checker.  The       *)
(* blacklist updater of validate_email/updater.py and the reloads of       *)
(* validate_email/domainlist_check.py, with their lock and files, are      *)
(* UpdaterSpec, and FairUpdaterSpec where every thread keeps running.      *)
(*                                                                         *)
(* _SMTPChecker.check walks the list of MX hosts; _check_one talks to one  *)
(* host: connect, STARTTLS (unless skip_tls), EHLO/HELO, MAIL FROM,        *)
(* RCPT TO, and QUIT in its finally clause.  One action of the model is    *)
(* one round trip with the server (or the TLS handshake), together with    *)
(* the except clause it triggers.  The server's answers are the inputs:    *)
(* a well-formed reply with a code of ReplyCodes, or a lost connection.    *)
(*                                                                         *)
(* The steps inherited from smtplib.SMTP are modelled as the library runs  *)
(* them: ehlo_or_helo_if_needed sends EHLO and falls back to HELO when the *)
(* reply is outside 2xx; starttls greets first, raises                     *)
(* SMTPNotSupportedError without the extension, SMTPResponseException for  *)
(* a reply other than 220 and RuntimeError without an ssl module, and      *)
(* forgets the greeting after the handshake; getreply and send close the   *)
(* socket and raise SMTPServerDisconnected when the connection is lost.    *)
(* The list of hosts has no duplicates, as dns_check delivers it, and may  *)
(* be empty.                                                               *)
(***************************************************************************)
EXTENDS Integers, Sequences, FiniteSets, TLC

(* ------------------------------ bounds -------------------------------- *)

\* longest list of MX hosts handed to smtp_check
MaxHosts == 3

\* dns_check hands over a list without duplicates (it keeps a result_set);
\* the list is a prefix of HostPool, possibly empty
HostPool == <<"mx1", "mx2", "mx3", "mx4", "mx5">>

HostNames == {HostPool[i] : i \in 1..Len(HostPool)}

\* the timeouts smtp_check is called with, in ticks
SmtpTimeouts == {1}

\* one reply code for each class the code tells apart: 220 (the only code
\* that starts the TLS handshake), 250 (the only code that makes EHLO
\* switch to ESMTP), a 3xx, a 4xx and a 5xx
ReplyCodes == {220, 250, 354, 451, 550}

VARIABLES
    hosts,              \* mx_records, the argument of smtp_check
    skip_tls,           \* _SMTPChecker.__skip_tls
    smtp_timeout,       \* self.timeout, the argument timeout of smtp_check
    have_ssl,           \* smtplib._have_ssl: the interpreter has an ssl module
    idx,                \* number of hosts the for loop of check has taken
    pc,                 \* position in check / _check_one
    host,               \* self._host
    command,            \* self.__command
    sock,               \* the connection behind self.sock: "none", "plain", "tls"
    ehlo_resp,          \* self.ehlo_resp is not None
    helo_resp,          \* self.helo_resp is not None
    does_esmtp,         \* self.does_esmtp
    esmtp_features,     \* self.esmtp_features (only "starttls" is read)
    temporary_errors,   \* self.__temporary_errors: host -> SMTPMessage
    pending,            \* how _check_one ends once its finally clause ran
    result,             \* how smtp_check ended
    sent,               \* history: commands written to the current connection
    reply,              \* history: the reply to the last command, if one came
    events,             \* history: per probed host, what ended its probe
    spent               \* history: the time the socket operations of
                        \* smtp_check have taken so far, in whole ticks
                        \* (negative: the time is not taken)

vars == <<hosts, skip_tls, smtp_timeout, have_ssl, idx, pc, host, command,
          sock, ehlo_resp, helo_resp, does_esmtp, esmtp_features,
          temporary_errors, pending, result, sent, reply, events, spent>>

\* The state of dns_check (validate_email/dns_check.py), which delivers the
\* list of hosts.
VARIABLES
    domain,             \* email_address.domain, the characters after the "@"
    address_types,      \* the argument address_types of dns_check
    has_ipv6,           \* socket.has_ipv6
    dns_pc,             \* position in dns_check and the functions it calls
    mx_outcome,         \* history: how the MX query ended
    answer,             \* the exchange names of the MX answer, in
                        \* processing order
    records,            \* the names that passed the cleaning
    rec_idx,            \* number of names the resolving loop has taken
    timeout,            \* the timeout still left
    resolved,           \* the list "result" of _get_resolved_mx_records
    queries,            \* history: the DNS queries issued
    dns_used,           \* history: the time the resolution has taken
    lookup,             \* history: how the last address query ended
    dns_result          \* how dns_check ended

dns_vars == <<domain, address_types, has_ipv6, dns_pc, mx_outcome, answer,
              records, rec_idx, timeout, resolved, queries, dns_used,
              lookup, dns_result>>

\* The EmailAddress object of validate_email/email_address.py; its _domain
\* is the variable domain above.
VARIABLES
    address,            \* self._address, the raw string
    user,               \* self._user
    ace_domain,         \* self._ace_domain
    ea_pc,              \* the constructor: not called ("off"), called
                        \* ("new"), returned ("constructed"), or the error
                        \* it raised
    encoded             \* history: the arguments idna's encode was called
                        \* with

ea_vars == <<address, user, ace_domain, ea_pc, encoded>>

\* The call of validate_email / validate_email_or_fail
\* (validate_email/validate_email.py) and the module-level domainlist_check
\* object it uses.
VARIABLES
    api_pc,             \* position in validate_email_or_fail: the call it
                        \* is about to make or is waiting for, "returned"
                        \* once it has ended, "done" once validate_email has
    check_format,       \* the keyword arguments of the call
    check_blacklist,
    check_dns,
    check_smtp,
    smtp_from_address,  \* the raw string, empty for None
    domain_blacklist,   \* domainlist_check.domain_blacklist
    api_result,         \* how validate_email_or_fail ended
    ve_result,          \* how validate_email ended
    calls               \* history: the checks called, in order

api_vars == <<api_pc, check_format, check_blacklist, check_dns, check_smtp,
              smtp_from_address, domain_blacklist, api_result, ve_result,
              calls>>

\* The call of mx_check and its _SMTPChecker (validate_email/mx_check.py).
VARIABLES
    mx_pc,              \* position in mx_check: "resolve", "check", "done"
    mx_domain,          \* email_address.domain
    skip_smtp,          \* the argument skip_smtp
    raise_communication_errors,     \* the two raise_ arguments
    raise_temporary_errors,
    mx_records,         \* the list handed to check
    mx_idx,             \* number of hosts the for loop of check has taken
    communication_errors,           \* self.__communication_errors
    mx_temporary_errors,            \* self.__temporary_errors
    mx_resolution,      \* history: how the hosts were found
    mx_events,          \* history: per connected host, what ended its probe
    mx_result           \* how mx_check ended

mx_vars == <<mx_pc, mx_domain, skip_smtp, raise_communication_errors,
             raise_temporary_errors, mx_records, mx_idx, communication_errors,
             mx_temporary_errors, mx_resolution, mx_events, mx_result>>

\* The blacklist updater (validate_email/updater.py) and the reloads of
\* DomainListValidator (validate_email/domainlist_check.py): the threads
\* and processes that run them, the lock file and the four files they
\* share, and the server the list is downloaded from.
VARIABLES
    up_pc,              \* per thread: its position in process, _process,
                        \* _write_new_file or reload_builtin_blacklist
    force,              \* per updater: the argument force
    is_install_time,    \* per updater: self._is_install_time
    headers,            \* per updater: the If-None-Match header of its
                        \* request, 0 for none
    response,           \* per updater: the version the response carries
                        \* and whether it has an ETag header
    attempt,            \* history, per updater: how its update ended
    bl_path,            \* per thread: the path _blacklist_path returned
    loaded,             \* per thread: the version its reload has loaded
    lock,               \* the holder of the lock on LOCK_PATH, or "free"
    fs,                 \* the blacklist and ETag files, by path
    writing,            \* the thread that has a blacklist file open for
                        \* writing, and the path
    published           \* the version the server has

up_vars == <<up_pc, force, is_install_time, headers, response, attempt,
             bl_path, loaded, lock, fs, writing, published>>

\* what the calling side keeps, the resolution and the probe leave alone
call_vars == <<ea_vars, api_vars, mx_vars, up_vars>>

all_vars == <<vars, dns_vars, call_vars>>

(* ------------------------------ values -------------------------------- *)

\* SMTPMessage(command, code, text, ...)
SMTPMessage(cmd, code, text) == [command |-> cmd, code |-> code, text |-> text]

\* The text of the reply the host at position i gave at stage st.
ReplyText(i, st) == [src |-> "reply", pos |-> i, at |-> st]

\* str(exc) of the exception raised at position i, stage st.
ExcText(kind, i, st) == [src |-> kind, pos |-> i, at |-> st]

\* d[h] = m, as a dict assignment
DictSet(d, h, m) == [k \in (DOMAIN d) \cup {h} |-> IF k = h THEN m ELSE d[k]]

EmptyDict == [k \in {} |-> 0]

Return(v) == [kind |-> "return", val |-> v, exc |-> "none", error_messages |-> EmptyDict]

Raise(e, msgs) == [kind |-> "raise", val |-> FALSE, exc |-> e, error_messages |-> msgs]

Running == [kind |-> "running", val |-> FALSE, exc |-> "none", error_messages |-> EmptyDict]

\* what ended the probe of one host
Event(st, kind, code) == [at |-> st, kind |-> kind, code |-> code]

\* the last reply read from the server; code 0: none was read
Reply(code) == [code |-> code]

NoReply == Reply(0)

(* ------------------------------- Init --------------------------------- *)

\* how an address query ended: with the addresses of the answer, as
\* item.to_text() gives them, or with a DNSException (ok is false)
Lookup(ok, items) == [ok |-> ok, items |-> items]

\* how dns_check ends: the returned list, or the exception raised
DnsReturn(list) == [kind |-> "return", val |-> list, exc |-> "none"]

DnsRaise(e) == [kind |-> "raise", val |-> <<>>, exc |-> e]

DnsRunning == [kind |-> "running", val |-> <<>>, exc |-> "none"]

\* smtp_check is handed a finished list of hosts: the resolution is not
\* part of its run
DnsOff ==
    /\ domain = <<>>
    /\ address_types = {}
    /\ has_ipv6 = FALSE
    /\ dns_pc = "off"
    /\ mx_outcome = "none"
    /\ answer = <<>>
    /\ records = <<>>
    /\ rec_idx = 0
    /\ timeout = 0
    /\ resolved = <<>>
    /\ queries = <<>>
    /\ dns_used = 0
    /\ lookup = Lookup(FALSE, <<>>)
    /\ dns_result = DnsRunning

\* no EmailAddress is being constructed
EaOff ==
    /\ address = <<>>
    /\ user = <<>>
    /\ ace_domain = <<>>
    /\ ea_pc = "off"
    /\ encoded = <<>>

\* how validate_email and mx_check end: with a value ("True", "False",
\* "None") or with an exception
Returns(text) == [kind |-> "return", val |-> text, exc |-> "none"]

Raises(e) == [kind |-> "raise", val |-> "none", exc |-> e]

NotEnded == [kind |-> "running", val |-> "none", exc |-> "none"]

\* validate_email_or_fail is not called
ApiOff ==
    /\ api_pc = "off"
    /\ check_format = FALSE
    /\ check_blacklist = FALSE
    /\ check_dns = FALSE
    /\ check_smtp = FALSE
    /\ smtp_from_address = <<>>
    /\ domain_blacklist = {}
    /\ api_result = Running
    /\ ve_result = NotEnded
    /\ calls = <<>>

\* mx_check is not called
MxOff ==
    /\ mx_pc = "off"
    /\ mx_domain = <<>>
    /\ skip_smtp = FALSE
    /\ raise_communication_errors = FALSE
    /\ raise_temporary_errors = FALSE
    /\ mx_records = <<>>
    /\ mx_idx = 0
    /\ communication_errors = EmptyDict
    /\ mx_temporary_errors = EmptyDict
    /\ mx_resolution = "none"
    /\ mx_events = <<>>
    /\ mx_result = NotEnded

\* a file that does not exist, and a file with the given version of the
\* list (or of its ETag); version 0 is the file of size zero
NoFile == [exists |-> FALSE, version |-> 0]

File(v) == [exists |-> TRUE, version |-> v]

\* the four paths of updater.py
Paths == {"BLACKLIST_FILEPATH_INSTALLED", "BLACKLIST_FILEPATH_TMP",
          "ETAG_FILEPATH_INSTALLED", "ETAG_FILEPATH_TMP"}

\* no file is open for writing
NotWriting == [by |-> "none", path |-> "none"]

\* no updater and no reload runs
UpOff ==
    /\ up_pc = <<>>
    /\ force = <<>>
    /\ is_install_time = <<>>
    /\ headers = <<>>
    /\ response = <<>>
    /\ attempt = <<>>
    /\ bl_path = <<>>
    /\ loaded = <<>>
    /\ lock = "free"
    /\ fs = [f \in Paths |-> NoFile]
    /\ writing = NotWriting
    /\ published = 0

\* smtp_check and dns_check are called on their own
CallOff == EaOff /\ ApiOff /\ MxOff /\ UpOff

\* the value of spent when the time is not taken
Unclocked == 0 - 1

\* _SMTPChecker.__init__: nothing connected, nothing collected.
InitFrom(clock) ==
    /\ hosts \in {SubSeq(HostPool, 1, n) : n \in 0..MaxHosts}
    /\ skip_tls \in BOOLEAN
    /\ smtp_timeout \in SmtpTimeouts
    /\ have_ssl \in BOOLEAN
    /\ idx = 0
    /\ pc = "check"
    /\ host = "none"
    /\ command = "none"
    /\ sock = "none"
    /\ ehlo_resp = FALSE
    /\ helo_resp = FALSE
    /\ does_esmtp = FALSE
    /\ esmtp_features = {}
    /\ temporary_errors = EmptyDict
    /\ pending = Running
    /\ result = Running
    /\ sent = <<>>
    /\ reply = NoReply
    /\ events = <<>>
    /\ spent = clock
    /\ DnsOff
    /\ CallOff

\* smtp_check is called
Init == InitFrom(Unclocked)

\* smtp_check is called and the time of its socket operations is taken
TimedInit == InitFrom(0)

(* --------------------- the tests the code makes ----------------------- *)

\* (changed: only a reply of 500 or more stops the step)
IsNegativeReplyOnly5xx(code) == code >= 500

\* connect and mail: "if code >= 400: raise SMTPResponseException"
IsNegativeReply(code) == code >= 400

\* (changed: no reply to RCPT TO counts as a rejection)
RcptRejectedNever(code) == FALSE

\* rcpt: "if code >= 500: raise AddressNotDeliverableError"
RcptRejected(code) == code >= 500

\* (changed: a 4xx reply to RCPT TO is not raised)
RcptTemporaryNever(code) == FALSE

\* rcpt: "elif code >= 400: raise SMTPResponseException"
RcptTemporary(code) == code >= 400

\* (changed: every negative reply raises SMTPCommunicationError)
RaisesCommunicationErrorOn4xx(code) == code >= 400

\* _handle_smtpresponseexception: "if exc.smtp_code >= 500: raise ..."
RaisesCommunicationError(code) == code >= 500

\* (changed: the code mx_check.py records for a lost connection)
DisconnectCodeOld == 0

\* the code recorded for a lost connection
DisconnectCode == 451

\* the code recorded for a failed TLS negotiation
TLSErrorCode == 0 - 1

\* smtplib.SMTP.ehlo_or_helo_if_needed: a reply outside 2xx is a failure
HeloAccepted(code) == 200 <= code /\ code <= 299

\* smtplib.SMTP.ehlo: only a 250 makes the session ESMTP
EhloIsEsmtp(code) == code = 250

\* smtplib.SMTP.starttls: only a 220 starts the handshake
StartTLSGoAhead(code) == code = 220

\* ehlo_or_helo_if_needed where _check_one calls it, after starttls or
\* right after connect: nothing is sent when a greeting is still known
AfterStartTLS(e, h) == IF e \/ h THEN "mail" ELSE "ehlo"

\* (changed: a missing STARTTLS extension ends the probe)
AfterTLSGreetingAborts(features) ==
    IF "starttls" \in features THEN "tls_cmd" ELSE "quit"

\* smtplib.SMTP.starttls once the greeting is done: without the extension
\* SMTPNotSupportedError is raised, which _SMTPChecker.starttls swallows
AfterTLSGreeting(features) ==
    IF "starttls" \in features THEN "tls_cmd" ELSE "mail"

(* ------------------------ the except clauses -------------------------- *)

\* (changed: a lost connection is reported as a rejection)
ExceptServerDisconnectedAsRejection(h, cmd, text) ==
    /\ pending' = Raise("AddressNotDeliverableError",
                        DictSet(EmptyDict, h, SMTPMessage(cmd, DisconnectCode, text)))
    /\ UNCHANGED temporary_errors

\* except SMTPServerDisconnected: collect a temporary error, return False
ExceptServerDisconnected(h, cmd, text) ==
    /\ temporary_errors' =
           DictSet(temporary_errors, h, SMTPMessage(cmd, DisconnectCode, text))
    /\ pending' = Return(FALSE)

\* (changed: the message is built after the clean-up, when the remembered
\* command is QUIT)
HandleSmtpResponseExceptionAfterQuit(h, cmd, code, text) ==
    IF RaisesCommunicationError(code)
    THEN /\ pending' = Raise("SMTPCommunicationError",
                             DictSet(EmptyDict, h, SMTPMessage("quit", code, text)))
         /\ UNCHANGED temporary_errors
    ELSE /\ temporary_errors' =
                DictSet(temporary_errors, h, SMTPMessage("quit", code, text))
         /\ pending' = Return(FALSE)

\* except SMTPResponseException: _handle_smtpresponseexception
HandleSmtpResponseException(h, cmd, code, text) ==
    IF RaisesCommunicationError(code)
    THEN /\ pending' = Raise("SMTPCommunicationError",
                             DictSet(EmptyDict, h, SMTPMessage(cmd, code, text)))
         /\ UNCHANGED temporary_errors
    ELSE /\ temporary_errors' =
                DictSet(temporary_errors, h, SMTPMessage(cmd, code, text))
         /\ pending' = Return(FALSE)

\* (changed: a failed TLS negotiation is recorded like a lost connection)
ExceptTLSNegotiationErrorAsDisconnect(h, cmd, text) ==
    /\ temporary_errors' =
           DictSet(temporary_errors, h, SMTPMessage(cmd, DisconnectCode, text))
    /\ pending' = Return(FALSE)

\* except TLSNegotiationError: collect a temporary error, return False
ExceptTLSNegotiationError(h, cmd, text) ==
    /\ temporary_errors' =
           DictSet(temporary_errors, h, SMTPMessage(cmd, TLSErrorCode, text))
    /\ pending' = Return(FALSE)

\* (changed: the socket is left as it is)
CloseLeavesOpen(s) == s

\* smtplib.SMTP.close, reached from quit on every path: no connection is
\* left behind self.sock
Close(s) == "none"

\* the clock is read up to the first value that is more than the timeout
\* and the longest single operation together
ClockCap == 2 * smtp_timeout + 1

\* a socket operation takes up to limit ticks
Elapse(limit) ==
    IF spent = Unclocked THEN UNCHANGED spent
    ELSE \E d \in 0..limit :
             spent' = IF spent + d > ClockCap THEN ClockCap ELSE spent + d

\* self.timeout is the timeout of every blocking socket operation
\* (socket.create_connection(..., timeout), then the socket's timeout): an
\* operation that completes has taken less than the timeout
Timely == Elapse(smtp_timeout - 1)

\* an operation that fails may have failed at once, or by running into
\* the timeout (socket.timeout is an OSError)
TimelyOrTimeout == Elapse(smtp_timeout)

\* smtplib found the connection lost while sending cmd or reading its
\* reply: close(), and the SMTPServerDisconnected reaches _check_one
Disconnected(st, cmd) ==
    /\ sock' = "none"
    /\ TimelyOrTimeout
    /\ ExceptServerDisconnected(host, cmd, ExcText("disconnected", idx, st))
    /\ events' = Append(events, Event(st, "disconnected", 0))
    /\ reply' = NoReply
    /\ pc' = "quit"

\* a reply that makes the step raise SMTPResponseException
NegativeReply(st, cmd, code) ==
    /\ HandleSmtpResponseException(host, cmd, code, ReplyText(idx, st))
    /\ events' = Append(events, Event(st, "reply", code))
    /\ pc' = "quit"

(* ---------------------------- the steps ------------------------------- *)

\* (changed: the loop ends when the timeout is used up)
HostsLeftWithinBudget(i, hs, used, limit) == i < Len(hs) /\ used < limit

\* check: "for host in hosts" goes on while there are hosts, whatever
\* time the hosts before have taken
HostsLeft(i, hs, used, limit) == i < Len(hs)

\* check: the for loop takes the next host; _check_one: self.connect(host)
Connect ==
    /\ pc = "check"
    /\ UNCHANGED <<dns_vars, call_vars>>
    /\ HostsLeft(idx, hosts, spent, smtp_timeout)
    /\ idx' = idx + 1
    /\ host' = hosts[idx + 1]
    /\ command' = "connect"
    /\ sent' = <<>>
    /\ UNCHANGED <<hosts, skip_tls, smtp_timeout, have_ssl, ehlo_resp, helo_resp, does_esmtp,
                   esmtp_features, result>>
    /\ \/ \* the connection is refused or times out: OSError
          /\ UNCHANGED sock
          /\ TimelyOrTimeout
          /\ ExceptServerDisconnected(host', "connect",
                                      ExcText("oserror", idx', "connect"))
          /\ events' = Append(events, Event("connect", "oserror", 0))
          /\ reply' = NoReply
          /\ pc' = "quit"
       \/ \* the connection is lost before the banner arrives
          /\ sock' = "none"
          /\ TimelyOrTimeout
          /\ ExceptServerDisconnected(host', "connect",
                                      ExcText("disconnected", idx', "connect"))
          /\ events' = Append(events, Event("connect", "disconnected", 0))
          /\ reply' = NoReply
          /\ pc' = "quit"
       \/ \E code \in ReplyCodes :
            /\ sock' = "plain"
            /\ Timely
            /\ reply' = Reply(code)
            /\ IF IsNegativeReply(code)
               THEN /\ HandleSmtpResponseException(
                           host', "connect", code, ReplyText(idx', "connect"))
                    /\ events' = Append(events, Event("connect", "reply", code))
                    /\ pc' = "quit"
               ELSE \* ehlo_or_helo_if_needed, called by _check_one or by
                    \* starttls, greets unless a greeting is known
                    /\ pc' = IF skip_tls
                             THEN AfterStartTLS(ehlo_resp, helo_resp)
                             ELSE IF ehlo_resp \/ helo_resp
                             THEN AfterTLSGreeting(esmtp_features)
                             ELSE "tls_ehlo"
                    /\ UNCHANGED <<temporary_errors, pending, events>>

\* smtplib.SMTP.ehlo, called by ehlo_or_helo_if_needed
Ehlo ==
    /\ pc \in {"tls_ehlo", "ehlo"}
    /\ UNCHANGED <<dns_vars, call_vars>>
    /\ command' = "ehlo"
    /\ sent' = Append(sent, "ehlo")
    /\ UNCHANGED <<hosts, skip_tls, smtp_timeout, have_ssl, idx, host, helo_resp, result>>
    /\ \/ /\ esmtp_features' = {}
          /\ UNCHANGED <<ehlo_resp, does_esmtp>>
          /\ Disconnected("ehlo", "ehlo")
       \/ \E code \in ReplyCodes, advertised \in BOOLEAN :
            /\ advertised => EhloIsEsmtp(code)
            /\ reply' = Reply(code)
            /\ ehlo_resp' = TRUE
            /\ does_esmtp' = (does_esmtp \/ EhloIsEsmtp(code))
            /\ esmtp_features' = IF advertised THEN {"starttls"} ELSE {}
            /\ pc' = IF HeloAccepted(code)
                     THEN IF pc = "tls_ehlo"
                          THEN AfterTLSGreeting(esmtp_features')
                          ELSE "mail"
                     ELSE IF pc = "tls_ehlo" THEN "tls_helo" ELSE "helo"
            /\ UNCHANGED <<sock, temporary_errors, pending, events>>
            /\ Timely

\* smtplib.SMTP.helo, the fallback of ehlo_or_helo_if_needed
Helo ==
    /\ pc \in {"tls_helo", "helo"}
    /\ UNCHANGED <<dns_vars, call_vars>>
    /\ command' = "helo"
    /\ sent' = Append(sent, "helo")
    /\ UNCHANGED <<hosts, skip_tls, smtp_timeout, have_ssl, idx, host, ehlo_resp, does_esmtp,
                   esmtp_features, result>>
    /\ \/ /\ UNCHANGED helo_resp
          /\ Disconnected("helo", "helo")
       \/ \E code \in ReplyCodes :
            /\ helo_resp' = TRUE
            /\ reply' = Reply(code)
            /\ UNCHANGED sock
            /\ Timely
            /\ IF HeloAccepted(code)
               THEN /\ pc' = IF pc = "tls_helo"
                             THEN AfterTLSGreeting(esmtp_features)
                             ELSE "mail"
                    /\ UNCHANGED <<temporary_errors, pending, events>>
               ELSE NegativeReply("helo", "helo", code)

\* smtplib.SMTP.starttls: the STARTTLS command and its reply
StartTLS ==
    /\ pc = "tls_cmd"
    /\ UNCHANGED <<dns_vars, call_vars>>
    /\ command' = "STARTTLS"
    /\ sent' = Append(sent, "STARTTLS")
    /\ UNCHANGED <<hosts, skip_tls, smtp_timeout, have_ssl, idx, host, ehlo_resp, helo_resp,
                   does_esmtp, esmtp_features, result>>
    /\ \/ Disconnected("starttls", "STARTTLS")
       \/ \E code \in ReplyCodes :
            /\ UNCHANGED sock
            /\ Timely
            /\ reply' = Reply(code)
            /\ IF StartTLSGoAhead(code)
               THEN \* without ssl: RuntimeError, swallowed
                    /\ pc' = IF have_ssl THEN "tls_wrap"
                             ELSE AfterStartTLS(ehlo_resp, helo_resp)
                    /\ UNCHANGED <<temporary_errors, pending, events>>
               ELSE NegativeReply("starttls", "STARTTLS", code)

\* smtplib.SMTP.starttls: context.wrap_socket, the TLS handshake
Handshake ==
    /\ pc = "tls_wrap"
    /\ UNCHANGED <<dns_vars, call_vars>>
    /\ reply' = NoReply
    /\ UNCHANGED <<hosts, skip_tls, smtp_timeout, have_ssl, idx, host, command, result, sent>>
    /\ \/ \* the handshake succeeds: the greeting is forgotten (RFC 3207)
          /\ sock' = "tls"
          /\ Timely
          /\ ehlo_resp' = FALSE
          /\ helo_resp' = FALSE
          /\ does_esmtp' = FALSE
          /\ esmtp_features' = {}
          /\ pc' = AfterStartTLS(ehlo_resp', helo_resp')
          /\ UNCHANGED <<temporary_errors, pending, events>>
       \/ \* ssl.SSLError: raise TLSNegotiationError(exc); wrap_socket has
          \* closed the connection it took over
          /\ sock' = Close(sock)
          /\ Timely
          /\ ExceptTLSNegotiationError(host, command,
                                       ExcText("sslerror", idx, "handshake"))
          /\ events' = Append(events, Event("handshake", "sslerror", 0))
          /\ pc' = "quit"
          /\ UNCHANGED <<ehlo_resp, helo_resp, does_esmtp, esmtp_features>>
       \/ \* a timeout or reset during the handshake is an OSError that is
          \* no SSLError: no except clause of starttls or _check_one takes it
          /\ sock' = Close(sock)
          /\ TimelyOrTimeout
          /\ pending' = Raise("OSError", EmptyDict)
          /\ events' = Append(events, Event("handshake", "oserror", 0))
          /\ pc' = "quit"
          /\ UNCHANGED <<ehlo_resp, helo_resp, does_esmtp, esmtp_features,
                         temporary_errors>>

\* (changed: the rejection is raised as a communication error)
AddressNotDeliverableWrongClass(h, code, text) ==
    Raise("SMTPCommunicationError",
          DictSet(EmptyDict, h, SMTPMessage("RCPT TO", code, text)))

\* rcpt: raise AddressNotDeliverableError({self._host: SMTPMessage(
\* command='RCPT TO', code=code, text=message.decode(...))})
AddressNotDeliverable(h, code, text) ==
    Raise("AddressNotDeliverableError",
          DictSet(EmptyDict, h, SMTPMessage("RCPT TO", code, text)))

\* _SMTPChecker.mail
Mail ==
    /\ pc = "mail"
    /\ UNCHANGED <<dns_vars, call_vars>>
    /\ command' = "mail"
    /\ sent' = Append(sent, "mail")
    /\ UNCHANGED <<hosts, skip_tls, smtp_timeout, have_ssl, idx, host, ehlo_resp, helo_resp,
                   does_esmtp, esmtp_features, result>>
    /\ \/ Disconnected("mail", "mail")
       \/ \E code \in ReplyCodes :
            /\ UNCHANGED sock
            /\ Timely
            /\ reply' = Reply(code)
            /\ IF IsNegativeReply(code)
               THEN NegativeReply("mail", "mail", code)
               ELSE /\ pc' = "rcpt"
                    /\ UNCHANGED <<temporary_errors, pending, events>>

\* (changed: the sender is announced again after the reply to RCPT TO)
AfterRcptMailAgain == "mail"

\* _check_one: rcpt is the last command of the try block; what follows is
\* the finally clause
AfterRcpt == "quit"

\* _SMTPChecker.rcpt, and "return code < 400" of _check_one
Rcpt ==
    /\ pc = "rcpt"
    /\ UNCHANGED <<dns_vars, call_vars>>
    /\ command' = "rcpt"
    /\ sent' = Append(sent, "rcpt")
    /\ UNCHANGED <<hosts, skip_tls, smtp_timeout, have_ssl, idx, host, ehlo_resp, helo_resp,
                   does_esmtp, esmtp_features, result>>
    /\ \/ Disconnected("rcpt", "rcpt")
       \/ \E code \in ReplyCodes :
            /\ UNCHANGED sock
            /\ Timely
            /\ reply' = Reply(code)
            /\ IF RcptRejected(code)
               THEN /\ pending' = AddressNotDeliverable(
                                       host, code, ReplyText(idx, "rcpt"))
                    /\ events' = Append(events, Event("rcpt", "reply", code))
                    /\ pc' = AfterRcpt
                    /\ UNCHANGED temporary_errors
               ELSE IF RcptTemporary(code)
               THEN NegativeReply("rcpt", "rcpt", code)
               ELSE /\ pending' = Return(code < 400)
                    /\ events' = Append(events, Event("rcpt", "reply", code))
                    /\ pc' = AfterRcpt
                    /\ UNCHANGED temporary_errors

\* (changed: a True from _check_one does not leave the loop)
AfterCheckOneNoReturn(p) ==
    IF p.kind = "raise" THEN p ELSE Running

\* check: what the for loop does with the way _check_one ended
AfterCheckOne(p) ==
    IF p.kind = "raise" THEN p
    ELSE IF p.val THEN Return(TRUE)
    ELSE Running

\* (changed: the greeting of the session is kept)
ForgetGreetingNever(resp) == resp

\* quit, after the QUIT command or in the except clause:
\* "self.ehlo_resp = self.helo_resp = None"
ForgetGreeting(resp) == FALSE

\* the finally clause of _check_one: _SMTPChecker.quit; then _check_one
\* returns or raises into the loop of check
Quit ==
    /\ pc = "quit"
    /\ UNCHANGED <<dns_vars, call_vars>>
    /\ IF sock = "none"
       THEN \* send raises SMTPServerDisconnected before anything is written
            UNCHANGED <<sent, spent>>
       ELSE \* QUIT is written; its reply, or the loss of the connection,
            \* both end in the same clean-up
            /\ sent' = Append(sent, "quit")
            /\ TimelyOrTimeout
    /\ command' = "quit"
    /\ ehlo_resp' = ForgetGreeting(ehlo_resp)
    /\ helo_resp' = ForgetGreeting(helo_resp)
    /\ esmtp_features' = {}
    /\ does_esmtp' = FALSE
    /\ sock' = Close(sock)
    /\ result' = AfterCheckOne(pending)
    /\ pc' = IF result'.kind = "running" THEN "check" ELSE "done"
    /\ pending' = Running
    /\ reply' = NoReply
    /\ UNCHANGED <<hosts, skip_tls, smtp_timeout, have_ssl, idx, host, temporary_errors, events>>

\* (changed: the collected temporary errors are not raised)
LoopExhaustedNoRaise(errors) == Return(FALSE)

\* check, after the loop: "if self.__temporary_errors: raise
\* SMTPTemporaryError(...)", else "return False"
LoopExhausted(errors) ==
    IF DOMAIN errors # {}
    THEN Raise("SMTPTemporaryError", errors)
    ELSE Return(FALSE)

\* check: the loop is exhausted
Finish ==
    /\ pc = "check"
    /\ UNCHANGED <<dns_vars, call_vars>>
    /\ ~HostsLeft(idx, hosts, spent, smtp_timeout)
    /\ result' = LoopExhausted(temporary_errors)
    /\ pc' = "done"
    /\ UNCHANGED <<hosts, skip_tls, smtp_timeout, have_ssl, idx, host, command, sock, ehlo_resp,
                   helo_resp, does_esmtp, esmtp_features, temporary_errors,
                   pending, sent, reply, events, spent>>

Next ==
    \/ Connect
    \/ Ehlo
    \/ Helo
    \/ StartTLS
    \/ Handshake
    \/ Mail
    \/ Rcpt
    \/ Quit
    \/ Finish

Spec == Init /\ [][Next]_vars

\* the same probe, with the time taken
TimedSpec == TimedInit /\ [][Next]_vars

TypeOK ==
    /\ idx \in 0..Len(hosts)
    /\ pc \in {"check", "tls_ehlo", "tls_helo", "tls_cmd", "tls_wrap", "ehlo",
               "helo", "mail", "rcpt", "quit", "done"}
    /\ sock \in {"none", "plain", "tls"}
    /\ DOMAIN temporary_errors \subseteq HostNames

(* ------------------ what ended the probe of a host -------------------- *)

Range(s) == {s[i] : i \in DOMAIN s}

Done == pc = "done"

Raised(e) == result.kind = "raise" /\ result.exc = e

\* the host accepted the recipient: a reply below 400 to RCPT TO
EvAccepted(e) == e.at = "rcpt" /\ e.kind = "reply" /\ e.code < 400

\* the host rejected the recipient: a reply of 500 or more to RCPT TO
EvRejected(e) == e.at = "rcpt" /\ e.kind = "reply" /\ e.code >= 500

EvReply4xx(e) == e.kind = "reply" /\ 400 <= e.code /\ e.code < 500

\* the connection was refused, timed out or was lost at a command
EvDisconnect(e) ==
    /\ e.kind \in {"disconnected", "oserror"}
    /\ e.at \in {"connect", "ehlo", "helo", "starttls", "mail", "rcpt"}

\* ssl.SSLError in the handshake
EvTLSFailure(e) == e.at = "handshake" /\ e.kind = "sslerror"

EvAmbiguous(e) == EvReply4xx(e) \/ EvDisconnect(e) \/ EvTLSFailure(e)

(* ------------------------------- C1 ----------------------------------- *)

\* C1: if the host at position i answers RCPT TO with a code below 400 and
\* every host before it ended with an ambiguous outcome, smtp_check returns
\* True and no host after position i is connected to.
C1_AcceptShortCircuits ==
    \A i \in DOMAIN events :
        (EvAccepted(events[i]) /\ \A j \in 1..(i - 1) : EvAmbiguous(events[j]))
        => /\ idx = i
           /\ Len(events) = i
           /\ pc \in {"quit", "done"}
           /\ Done => result = Return(TRUE)

\* the second of three hosts accepted after an ambiguous first one
C1_Witness ==
    /\ Done
    /\ Len(hosts) = 3
    /\ Len(events) = 2
    /\ EvAmbiguous(events[1])
    /\ EvAccepted(events[2])
    /\ result = Return(TRUE)

(* ------------------------------- C2 ----------------------------------- *)

\* C2 as stated: after a reply of 500 or more to RCPT TO the remaining
\* hosts are still probed, so the check ends only when every host was
\* probed or one accepted.
C2_RejectionContinues ==
    (Done /\ \E i \in DOMAIN events : EvRejected(events[i]))
    => \/ Len(events) = Len(hosts)
       \/ EvAccepted(events[Len(events)])

\* C2 (amended): a reply of 500 or more to RCPT TO at position i ends the
\* check at that host: no later host is connected to, and after QUIT
\* AddressNotDeliverableError is raised with that host's reply.
C2_RejectionStops ==
    \A i \in DOMAIN events :
        EvRejected(events[i])
        => /\ idx = i
           /\ Len(events) = i
           /\ pc \in {"quit", "done"}
           /\ Done => /\ Raised("AddressNotDeliverableError")
                      /\ DOMAIN result.error_messages = {hosts[i]}
                      /\ result.error_messages[hosts[i]].code = events[i].code

\* the first of several hosts rejected, and the check is over
C2_Witness ==
    /\ Done
    /\ Len(hosts) >= 2
    /\ Len(events) = 1
    /\ EvRejected(events[1])
    /\ Raised("AddressNotDeliverableError")

(* ------------------------------- C3 ----------------------------------- *)

\* C3 as stated: if every host answers RCPT TO with 550, the
\* AddressNotDeliverableError raised has an entry with code 550 for each
\* host of the list.
C3_EveryHostListed ==
    (/\ Done
     /\ Len(hosts) >= 1
     /\ events # <<>>
     /\ \A i \in DOMAIN events : events[i] = Event("rcpt", "reply", 550))
    => /\ Raised("AddressNotDeliverableError")
       /\ DOMAIN result.error_messages = Range(hosts)
       /\ \A h \in Range(hosts) : result.error_messages[h].code = 550

\* C3 (amended): if the hosts answer RCPT TO with 550, the check ends at
\* the first host with AddressNotDeliverableError, whose error_messages
\* has exactly one entry: the first host's, with code 550.
C3_FirstHostListed ==
    (/\ Done
     /\ events # <<>>
     /\ events[1] = Event("rcpt", "reply", 550))
    => /\ Raised("AddressNotDeliverableError")
       /\ idx = 1
       /\ DOMAIN result.error_messages = {hosts[1]}
       /\ result.error_messages[hosts[1]] =
              SMTPMessage("RCPT TO", 550, ReplyText(1, "rcpt"))

\* three hosts, the first answered 550 to RCPT TO
C3_Witness ==
    /\ Done
    /\ Len(hosts) = 3
    /\ events = <<Event("rcpt", "reply", 550)>>

(* ------------------------------- C4 ----------------------------------- *)

\* the ambiguous outcomes C4 lists
EvListedAmbiguous(e) ==
    \/ EvReply4xx(e) /\ e.at \in {"connect", "ehlo", "helo", "mail", "rcpt"}
    \/ EvDisconnect(e) /\ e.at \in {"connect", "ehlo", "helo", "mail", "rcpt"}
    \/ EvTLSFailure(e)

\* every outcome after which _check_one returns False
EvTemporary(e) ==
    \/ EvDisconnect(e)
    \/ EvTLSFailure(e)
    \/ EvReply4xx(e)
    \/ e.kind = "reply" /\ e.at = "helo" /\ e.code < 500
                        /\ ~(200 <= e.code /\ e.code <= 299)
    \/ e.kind = "reply" /\ e.at = "starttls" /\ e.code < 500 /\ e.code # 220

AllProbed(P(_)) ==
    /\ Len(events) = Len(hosts)
    /\ \A i \in DOMAIN events : P(events[i])

\* C4 as stated: for a non-empty list, SMTPTemporaryError is raised exactly
\* when every host was probed and each ended with a 4xx reply at connect,
\* HELO/EHLO, MAIL FROM or RCPT TO, a disconnect or timeout at one of those
\* stages, or a TLS negotiation failure.
C4_TemporaryIffListed ==
    (Done /\ Len(hosts) >= 1)
    => (Raised("SMTPTemporaryError") <=> AllProbed(EvListedAmbiguous))

\* C4 (amended): for a non-empty list, SMTPTemporaryError is raised exactly
\* when every host was probed and each ended with a reply below 500 that
\* fails its step (4xx at connect, MAIL FROM or RCPT TO, anything but 2xx
\* at HELO, anything but 220 at STARTTLS), with a refused or lost
\* connection at connect or at a command, or with an SSL error in the
\* handshake.
C4_TemporaryIffAllAmbiguous ==
    (Done /\ Len(hosts) >= 1)
    => (Raised("SMTPTemporaryError") <=> AllProbed(EvTemporary))

\* a single host answered 451 to RCPT TO
C4_Witness ==
    /\ Done
    /\ events = <<Event("rcpt", "reply", 451)>>
    /\ Len(hosts) = 1
    /\ Raised("SMTPTemporaryError")

(* ------------------------------- C5 ----------------------------------- *)

\* the only host refused the TCP connection
OnlyHostRefused ==
    /\ Done
    /\ Len(hosts) = 1
    /\ events = <<Event("connect", "oserror", 0)>>

EvPreRcptNegative(e) ==
    /\ e.kind = "reply"
    /\ e.at \in {"connect", "helo", "mail"}
    /\ e.code >= 400

C7_ExceptionByStageAndClass ==
    (Done /\ Len(hosts) = 1 /\ Len(events) = 1 /\ events[1].kind = "reply")
    => LET e == events[1]
       IN  /\ (e.at \in {"connect", "helo", "mail"} /\ e.code >= 500)
              => Raised("SMTPCommunicationError")
           /\ (e.at = "rcpt" /\ e.code >= 500)
              => Raised("AddressNotDeliverableError")
           /\ (e.at \in {"connect", "helo", "mail", "rcpt"} /\ EvReply4xx(e))
              => Raised("SMTPTemporaryError")

\* a single host answered 451 to RCPT TO, and the check is over
C7_Witness ==
    /\ Done
    /\ Len(hosts) = 1
    /\ events = <<Event("rcpt", "reply", 451)>>
    /\ result.kind = "raise"

(* ------------------------------- C8 ----------------------------------- *)

\* the command remembered at a stage
CommandAt(st) == IF st = "starttls" THEN "STARTTLS" ELSE st

TLSFailureMessage(i) ==
    SMTPMessage("STARTTLS", 0 - 1, ExcText("sslerror", i, "handshake"))

NotAdvertised ==
    /\ pc \in {"tls_ehlo", "tls_helo"}
    /\ 200 <= reply'.code /\ reply'.code <= 299
    /\ "starttls" \notin esmtp_features'

\* this step read the go-ahead to STARTTLS, and there is no ssl module
NoLocalTLS ==
    /\ pc = "tls_cmd"
    /\ reply'.code = 220
    /\ ~have_ssl

\* this step read a negative reply to STARTTLS
StartTLSRefused ==
    /\ pc = "tls_cmd"
    /\ reply'.code >= 400

\* the probe goes on to MAIL FROM on the same, unencrypted connection, and
\* nothing is recorded or raised
ContinuesUnencrypted ==
    /\ pc' = "mail"
    /\ sock = "plain" /\ sock' = "plain"
    /\ idx' = idx /\ host' = host
    /\ events' = events
    /\ temporary_errors' = temporary_errors
    /\ pending' = Running

\* while MAIL FROM and RCPT TO are outstanding nothing is decided yet
UndecidedBeforeRcpt ==
    pc \in {"mail", "rcpt"}
    => /\ Len(events) = idx - 1
       /\ hosts[idx] \notin DOMAIN temporary_errors
       /\ pending = Running
       /\ result = Running

\* C10 as stated: with skip_tls false, a server that does not advertise
\* STARTTLS, a negative reply to STARTTLS and a missing local TLS stack all
\* let the probe continue unencrypted to MAIL FROM and RCPT TO.
C10_RefusedStartTLSContinues ==
    [][(~skip_tls /\ (NotAdvertised \/ StartTLSRefused \/ NoLocalTLS))
       => ContinuesUnencrypted]_vars

\* C10 (amended): with skip_tls false, a server that does not advertise
\* STARTTLS and a missing local TLS stack are no errors: the probe
\* continues unencrypted on the same connection to MAIL FROM and RCPT TO,
\* whose replies alone decide the host's outcome.  (A negative reply to
\* the STARTTLS command ends the probe of that host.)
C10_UnsupportedTLSContinues ==
    /\ []UndecidedBeforeRcpt
    /\ [][(~skip_tls /\ (NotAdvertised \/ NoLocalTLS))
          => ContinuesUnencrypted]_vars
    /\ [][(~skip_tls /\ StartTLSRefused) => pc' = "quit"]_vars

\* without an ssl module, the host accepted the recipient on the plain
\* connection after the go-ahead to STARTTLS
C10_Witness ==
    /\ ~skip_tls
    /\ ~have_ssl
    /\ pc = "quit"
    /\ sock = "plain"
    /\ sent = <<"ehlo", "STARTTLS", "mail", "rcpt">>
    /\ EvAccepted(events[idx])

(* ------------------------------- C11 ---------------------------------- *)

\* between two probes and at the end, every probe taken so far has its one
\* outcome, quit was the last command attempted and no connection is open
ProbesClosed ==
    pc \in {"check", "done"}
    => /\ sock = "none"
       /\ Len(events) = idx
       /\ idx > 0 => command = "quit"

\* C11: whichever way the probe of a host ends (acceptance, 5xx, 4xx,
\* disconnect, TLS failure, escaping exception), quit is attempted -- QUIT
\* is written whenever the connection is still open -- and the connection
\* is closed before the next host is connected to or the result is
\* returned; a connect never finds a connection open, and none is open
\* when smtp_check finishes.
C11_ClosedAfterEveryProbe ==
    /\ []ProbesClosed
    /\ [][pc = "quit"
          => /\ command' = "quit"
             /\ sock' = "none"
             /\ pc' \in {"check", "done"}
             /\ sock # "none" => sent' = Append(sent, "quit")]_vars
    /\ [][idx' # idx => (sock = "none" /\ pc = "check")]_vars

\* three hosts probed: a 4xx reply, a lost connection, then an escaping
\* exception in the handshake; no connection is open at the end
C11_Witness ==
    /\ Done
    /\ Len(events) = 3
    /\ EvReply4xx(events[1])
    /\ events[2].kind = "disconnected"
    /\ events[3] = Event("handshake", "oserror", 0)
    /\ sock = "none"
    /\ command = "quit"

(* ------------------------------- C12 ---------------------------------- *)

\* this step writes command c to the connection
Sends(c) == sent' = Append(sent, c)

LastSent == IF sent = <<>> THEN "connect" ELSE sent[Len(sent)]

\* the last command got a reply, and the reply is below 400
PositiveReply == 0 < reply.code /\ reply.code < 400

\* the greeting is in place: the last command was EHLO or HELO and its
\* reply was a 2xx
Greeted ==
    /\ LastSent \in {"ehlo", "helo"}
    /\ 200 <= reply.code /\ reply.code <= 299

\* the outcome of the current host's probe is already known
ProbeEnded == idx > 0 /\ Len(events) = idx

\* C12: on each host the steps run in order and each is gated by the one
\* before: the first EHLO is sent only after a banner below 400 (HELO only
\* as the fallback of an EHLO answered outside 2xx, a second EHLO only on
\* the connection that the handshake encrypted), STARTTLS only after an
\* accepted greeting, MAIL FROM only after an accepted greeting (or after
\* the go-ahead to STARTTLS that the missing local TLS stack cannot use),
\* RCPT TO only after a reply below 400 to MAIL FROM; and once a step has
\* failed nothing but QUIT is sent to that host.
C12_StepsGatedInOrder ==
    /\ [][Sends("ehlo")
          => \/ sent = <<>> /\ PositiveReply
             \/ LastSent = "STARTTLS" /\ sock = "tls"]_vars
    /\ [][Sends("helo")
          => LastSent = "ehlo" /\ reply.code > 0 /\ ~Greeted]_vars
    /\ [][Sends("STARTTLS") => (Greeted /\ ~skip_tls)]_vars
    /\ [][Sends("mail")
          => \/ Greeted
             \/ LastSent = "STARTTLS" /\ reply.code = 220 /\ ~have_ssl]_vars
    /\ [][Sends("rcpt") => (LastSent = "mail" /\ PositiveReply)]_vars
    /\ [][(ProbeEnded /\ idx' = idx /\ sent' # sent) => Sends("quit")]_vars
    /\ [][(sent # <<>> /\ LastSent = "quit") => sent' \in {sent, <<>>}]_vars

\* the whole sequence on an encrypted connection, up to the reply to
\* RCPT TO
C12_Witness ==
    /\ pc = "quit"
    /\ sock = "tls"
    /\ sent = <<"ehlo", "STARTTLS", "ehlo", "helo", "mail", "rcpt">>
    /\ reply.code = 250

(* ------------------------------- C13 ---------------------------------- *)

TypedErrors ==
    {"AddressNotDeliverableError", "SMTPTemporaryError", "SMTPCommunicationError"}

\* C13 as stated: smtp_check ends with the value True or with one of
\* AddressNotDeliverableError, SMTPTemporaryError, SMTPCommunicationError;
\* whatever the hosts reply and wherever a connection is refused, times
\* out, is lost or fails in TLS, no other exception leaves the call.
C13_OnlyTypedOutcomes ==
    Done => \/ result = Return(TRUE)
            \/ result.kind = "raise" /\ result.exc \in TypedErrors

\* the TLS handshake with the only host timed out, and the OSError left
\* smtp_check after QUIT
C13_RawErrorEscapes ==
    /\ Done
    /\ Len(hosts) = 1
    /\ events = <<Event("handshake", "oserror", 0)>>
    /\ sent = <<"ehlo", "STARTTLS">>
    /\ Raised("OSError")
    /\ temporary_errors = EmptyDict

(* ------------------------------- C14 ---------------------------------- *)

\* the command an error message names for the reply that ended a probe
MessageCommand(e) == IF EvRejected(e) THEN "RCPT TO" ELSE CommandAt(e.at)

\* the message for the reply that ended the probe at position i
ReplyMessage(i) ==
    SMTPMessage(MessageCommand(events[i]), events[i].code,
                ReplyText(i, events[i].at))

\* C14: when smtp_check raises one of its SMTP errors, the host whose
\* reply made it raise has an entry in error_messages, and every entry of
\* a host whose probe ended with a reply holds the command that reply
\* answered ('connect' for the banner), the code and the text of that very
\* reply of that very host -- not those of another host, of an earlier
\* step on the same host, or of the QUIT of the clean-up.
C14_MessageNamesItsReply ==
    (Done /\ result.kind = "raise" /\ result.exc \in TypedErrors)
    => /\ hosts[Len(events)] \in DOMAIN result.error_messages
       /\ \A i \in DOMAIN events :
            (events[i].kind = "reply" /\ hosts[i] \in DOMAIN result.error_messages)
            => result.error_messages[hosts[i]] = ReplyMessage(i)
       /\ \A i \in DOMAIN events :
            (events[i].kind = "reply" /\ Raised("SMTPTemporaryError"))
            => hosts[i] \in DOMAIN result.error_messages

\* two hosts, both refused HELO with a 4xx after EHLO was refused too, the
\* second after a STARTTLS handshake: each entry names HELO and its own text
C14_Witness ==
    /\ Done
    /\ Raised("SMTPTemporaryError")
    /\ Len(events) = 2
    /\ events[1] = Event("helo", "reply", 451)
    /\ events[2] = Event("helo", "reply", 451)
    /\ sent = <<"ehlo", "STARTTLS", "ehlo", "helo", "quit">>
    /\ result.error_messages[hosts[2]]
           = SMTPMessage("helo", 451, ReplyText(2, "helo"))

(* ------------------------------- C15 ---------------------------------- *)

\* how often command c was written to the current connection
Count(c) == Cardinality({i \in DOMAIN sent : sent[i] = c})

\* C15: no DATA command is ever written to a connection -- the only
\* commands are EHLO, HELO, STARTTLS, MAIL FROM, RCPT TO and QUIT -- and
\* each connection sees at most one MAIL FROM and at most one RCPT TO.
C15_NoDataOneRecipient ==
    /\ "data" \notin Range(sent)
    /\ Range(sent) \subseteq {"ehlo", "helo", "STARTTLS", "mail", "rcpt", "quit"}
    /\ Count("mail") <= 1
    /\ Count("rcpt") <= 1

\* the second connection of a check, closed after one MAIL FROM and one
\* RCPT TO
C15_Witness ==
    /\ Done
    /\ idx = 2
    /\ sent = <<"ehlo", "helo", "mail", "rcpt", "quit">>
    /\ EvAccepted(events[2])

(***************************************************************************)
(* The MX resolution: validate_email/dns_check.py.                         *)
(*                                                                         *)
(* dns_check either takes the bracketed IP of the address as it is, or     *)
(* asks for the MX records of the domain (_get_mx_records), cleans the     *)
(* exchange names (_get_cleaned_mx_records) and looks up the addresses of  *)
(* the names that are left (_get_resolved_mx_records), AAAA before A.  The *)
(* answers of the resolver and the time each query takes are the inputs.   *)
(* A name is the sequence of its characters; time passes in whole ticks.   *)
(***************************************************************************)

(* ------------------------------ bounds -------------------------------- *)

\* most records in an MX answer
MaxMX == 3

\* the timeouts dns_check is called with
Timeouts == {1, 2}

\* the domains of the addresses checked: a host name, a bracketed IPv4
\* address, a bracketed IPv6 address, and brackets around something that is
\* no IP address
Domains ==
    { <<"a", "a", ".", "a", "a">>,
      <<"[", "1", ".", "2", ".", "3", ".", "4", "]">>,
      <<"[", ":", ":", "1", "]">>,
      <<"[", "x", "]">> }

\* the values address_types is given
AddressTypeSets ==
    { {"IPv4Address", "IPv6Address"}, {"IPv4Address"}, {"IPv6Address"} }

\* letters and digits, [A-Z0-9] under IGNORECASE
Alnum == {"a", "d", "e", "m", "q", "s", "w", "x", "2"}

\* the exchange names an MX answer is made of, as record.exchange.to_text()
\* gives them: the root, a single label, a host name with and without the
\* trailing root dot, a second host name, and a name whose first label
\* starts with a character no label may contain
MxNames ==
    { <<".">>,
      <<"a", "s", "d", "q", "w", "e">>,
      <<"m", "x", ".", "a", "a", ".">>,
      <<"m", "x", ".", "a", "a">>,
      <<"m", "2", ".", "a", "a", ".">>,
      <<"_", "x", ".", "a", "a", ".">> }

\* the MX answers: the resolver raises NoAnswer instead of delivering an
\* empty one
MxAnswers == UNION {[1..n -> MxNames] : n \in 1..MaxMX}

\* the addresses of the address pool, as item.to_text() gives them
AddressPool == {HostPool[i] : i \in 1..3}

\* the answers to an address query, in processing order
AddressAnswers ==
    { <<HostPool[1]>>, <<HostPool[2], HostPool[1]>>, <<HostPool[3]>> }

\* the resolver's exceptions that _get_mx_records converts
MxFailures == {"NXDOMAIN", "NoNameservers", "Timeout", "YXDOMAIN", "NoAnswer"}

(* --------------------------- pure functions --------------------------- *)

\* str.rstrip('.')
RECURSIVE RStrip(_)
RStrip(s) ==
    IF s # <<>> /\ s[Len(s)] = "."
    THEN RStrip(SubSeq(s, 1, Len(s) - 1))
    ELSE s

\* [A-Z0-9](?:[A-Z0-9-]{0,61}[A-Z0-9])?
IsLabel(u) ==
    /\ 1 <= Len(u) /\ Len(u) <= 63
    /\ u[1] \in Alnum
    /\ u[Len(u)] \in Alnum
    /\ \A i \in DOMAIN u : u[i] \in Alnum \cup {"-"}

\* (?:[A-Z0-9-]{2,63}(?<!-))
IsLastLabel(u) ==
    /\ 2 <= Len(u) /\ Len(u) <= 63
    /\ \A i \in DOMAIN u : u[i] \in Alnum \cup {"-"}
    /\ u[Len(u)] # "-"

\* the pattern of HOST_REGEX matches the whole of u: one or more labels,
\* each followed by a dot, then the last label, then the end of the string
HostRegexMatches(u) ==
    LET n == Len(u)
        dots == {k \in 1..n : u[k] = "."}
        cuts == {0} \cup dots \cup {n + 1}
        after(b) == CHOOSE c \in cuts : c > b /\ \A d \in cuts : d > b => c <= d
    IN  /\ dots # {}
        /\ \A b \in {0} \cup dots :
              LET piece == SubSeq(u, b + 1, after(b) - 1)
              IN  IF after(b) = n + 1 THEN IsLastLabel(piece) ELSE IsLabel(piece)

\* HOST_REGEX.search(string=x): the pattern may match from any position on
HostRegexSearch(s) ==
    \E i \in 1..Len(s) : HostRegexMatches(SubSeq(s, i, Len(s)))

\* (changed: the names are taken as they come, without the test for a name
\* seen before)
ToCheckKeepsDuplicates(ans) == [i \in DOMAIN ans |-> RStrip(ans[i])]

\* _get_cleaned_mx_records: the loop that fills to_check, skipping a name
\* that is already in host_set
RECURSIVE ToCheck(_)
ToCheck(ans) ==
    IF ans = <<>> THEN <<>>
    ELSE LET front == ToCheck(SubSeq(ans, 1, Len(ans) - 1))
             dns_str == RStrip(ans[Len(ans)])
         IN  IF dns_str \in {front[i] : i \in DOMAIN front}
             THEN front
             ELSE Append(front, dns_str)

\* [x for x in to_check if HOST_REGEX.search(string=x)]
RECURSIVE OnlyValid(_)
OnlyValid(names) ==
    IF names = <<>> THEN <<>>
    ELSE LET front == OnlyValid(SubSeq(names, 1, Len(names) - 1))
             x == names[Len(names)]
         IN  IF HostRegexSearch(x) THEN Append(front, x) ELSE front

\* (changed: an address that is already in the list is added again)
AddNewKeepsDuplicates(list, items) == list \o items

\* _resolve_one_recordtype: the loop over the answer, skipping an address
\* that is already in result_set
RECURSIVE AddNew(_, _)
AddNew(list, items) ==
    IF items = <<>> THEN list
    ELSE LET text == items[1]
             rest == SubSeq(items, 2, Len(items))
         IN  IF text \in {list[i] : i \in DOMAIN list}
             THEN AddNew(list, rest)
             ELSE AddNew(Append(list, text), rest)

\* (changed: the brackets stay on the literal)
DomainLiteralIpWithBrackets(d) ==
    IF d # <<>> /\ d[1] = "[" /\ d[Len(d)] = "]" THEN d ELSE <<>>

\* EmailAddress.domain_literal_ip: the domain without its brackets, or None
\* (here the empty sequence, which is as false as None)
DomainLiteralIp(d) ==
    IF d # <<>> /\ d[1] = "[" /\ d[Len(d)] = "]"
    THEN SubSeq(d, 2, Len(d) - 1)
    ELSE <<>>

\* type(ipaddress.ip_address(text)), or "ValueError" when the text is no
\* address: dotted decimals are IPv4, colon-separated hexadecimals IPv6
IpAddressType(text) ==
    LET chars == {text[i] : i \in DOMAIN text}
    IN  IF "." \in chars /\ chars \subseteq {"1", "2", "3", "4", "."}
        THEN "IPv4Address"
        ELSE IF ":" \in chars /\ chars \subseteq {"1", "2", "a", "d", "e", ":"}
        THEN "IPv6Address"
        ELSE "ValueError"

\* (changed: a timeout is reported as a missing nameserver)
MxErrorTimeoutAsNoNameserver(f) ==
    CASE f = "NXDOMAIN" -> "DomainNotFoundError"
      [] f = "NoNameservers" -> "NoNameserverError"
      [] f = "Timeout" -> "NoNameserverError"
      [] f = "YXDOMAIN" -> "DNSConfigurationError"
      [] f = "NoAnswer" -> "NoMXError"

\* _get_mx_records: the except clauses
MxError(f) ==
    CASE f = "NXDOMAIN" -> "DomainNotFoundError"
      [] f = "NoNameservers" -> "NoNameserverError"
      [] f = "Timeout" -> "DNSTimeoutError"
      [] f = "YXDOMAIN" -> "DNSConfigurationError"
      [] f = "NoAnswer" -> "NoMXError"

\* resolve(qname=..., rdtype=..., lifetime=...)
Query(qname, rdtype, lifetime) ==
    [qname |-> qname, rdtype |-> rdtype, lifetime |-> lifetime]

(* ------------------------------- Init --------------------------------- *)

\* smtp_check has not been called
SmtpOff ==
    /\ hosts = <<>>
    /\ skip_tls = FALSE
    /\ smtp_timeout = 0
    /\ have_ssl = FALSE
    /\ idx = 0
    /\ pc = "idle"
    /\ host = "none"
    /\ command = "none"
    /\ sock = "none"
    /\ ehlo_resp = FALSE
    /\ helo_resp = FALSE
    /\ does_esmtp = FALSE
    /\ esmtp_features = {}
    /\ temporary_errors = EmptyDict
    /\ pending = Running
    /\ result = Running
    /\ sent = <<>>
    /\ reply = NoReply
    /\ events = <<>>
    /\ spent = Unclocked

\* the call dns_check(email_address, timeout, address_types)
DnsInit ==
    /\ domain \in Domains
    /\ address_types \in AddressTypeSets
    /\ has_ipv6 \in BOOLEAN
    /\ timeout \in Timeouts
    /\ dns_pc = "dns_check"
    /\ mx_outcome = "none"
    /\ answer = <<>>
    /\ records = <<>>
    /\ rec_idx = 0
    /\ resolved = <<>>
    /\ queries = <<>>
    /\ dns_used = 0
    /\ lookup = Lookup(FALSE, <<>>)
    /\ dns_result = DnsRunning
    /\ SmtpOff
    /\ CallOff

(* ---------------------------- the steps ------------------------------- *)

\* dns_check, the domain is a bracketed literal
DnsCheckLiteral ==
    /\ dns_pc = "dns_check"
    /\ DomainLiteralIp(domain) # <<>>
    /\ LET literal == DomainLiteralIp(domain)
           type == IpAddressType(literal)
       IN  dns_result' =
               IF type = "ValueError" THEN DnsRaise("ValueError")
               ELSE IF type \notin address_types THEN DnsRaise("NoValidMXError")
               ELSE DnsReturn(<<literal>>)
    /\ dns_pc' = "done"
    /\ UNCHANGED <<domain, address_types, has_ipv6, mx_outcome, answer, records,
                   rec_idx, timeout, resolved, queries, dns_used, lookup>>
    /\ UNCHANGED <<vars, call_vars>>

\* _get_mx_records: the MX query
GetMxRecords ==
    /\ dns_pc = "dns_check"
    /\ DomainLiteralIp(domain) = <<>>
    /\ queries' = Append(queries, Query(domain, "MX", timeout))
    /\ \/ \E f \in MxFailures :
            /\ mx_outcome' = f
            /\ dns_result' = DnsRaise(MxError(f))
            /\ dns_pc' = "done"
            /\ UNCHANGED answer
       \/ \E ans \in MxAnswers :
            /\ mx_outcome' = "answer"
            /\ answer' = ans
            /\ dns_pc' = "clean"
            /\ UNCHANGED dns_result
    /\ UNCHANGED <<domain, address_types, has_ipv6, records, rec_idx, timeout,
                   resolved, dns_used, lookup>>
    /\ UNCHANGED <<vars, call_vars>>

\* (changed: an empty list of names is let through)
NoValidMXNever(names) == FALSE

\* _get_cleaned_mx_records: "if not result: raise NoValidMXError"
NoValidMX(names) == names = <<>>

\* (changed: the time used does not come off the timeout)
TimeLeftAlwaysAll(left, elapsed) == left

\* "timeout - (datetime.now() - time_start).total_seconds()"
TimeLeft(left, elapsed) == left - elapsed

\* _get_cleaned_mx_records once the answer is there: the names are
\* stripped, freed of duplicates and filtered; the time used so far comes
\* off the timeout
CleanMxRecords ==
    /\ dns_pc = "clean"
    /\ LET result_ == OnlyValid(ToCheck(answer))
       IN  IF NoValidMX(result_)
           THEN /\ dns_result' = DnsRaise("NoValidMXError")
                /\ dns_pc' = "done"
                /\ UNCHANGED <<records, timeout, dns_used>>
           ELSE /\ \E elapsed \in 0..timeout :
                     /\ timeout' = TimeLeft(timeout, elapsed)
                     /\ dns_used' = dns_used + elapsed
                /\ records' = result_
                /\ dns_pc' = "loop"
                /\ UNCHANGED dns_result
    /\ UNCHANGED <<domain, address_types, has_ipv6, mx_outcome, answer, rec_idx,
                   resolved, queries, lookup>>
    /\ UNCHANGED <<vars, call_vars>>

\* _get_resolved_mx_records and _get_cleaned_mx_records: "return result"
ResolvedOutcome(list) == DnsReturn(list)

\* _get_resolved_mx_records: the head of the for loop, with its
\* "if timeout <= 0: break", and the return after the loop.  (The MX
\* answer is a local of _get_cleaned_mx_records: it is out of reach here.)
NextRecord ==
    /\ dns_pc = "loop"
    /\ answer' = <<>>
    /\ IF rec_idx < Len(records) /\ timeout > 0
       THEN /\ rec_idx' = rec_idx + 1
            /\ dns_pc' = "aaaa"
            /\ UNCHANGED dns_result
       ELSE /\ dns_result' = ResolvedOutcome(resolved)
            /\ dns_pc' = "done"
            /\ UNCHANGED rec_idx
    /\ UNCHANGED <<domain, address_types, has_ipv6, mx_outcome, records,
                   timeout, resolved, queries, dns_used, lookup>>
    /\ UNCHANGED <<vars, call_vars>>

\* _resolve_one_recordtype: nothing is asked without time left; otherwise
\* the addresses of the answer are added, or the resolver's exception
\* (a timeout among them) is logged, and the time used comes off
ResolveOneRecordtype(hostname, rdtype) ==
    IF timeout <= 0
    THEN /\ timeout' = 0
         /\ UNCHANGED <<resolved, queries, dns_used, lookup>>
    ELSE /\ queries' = Append(queries, Query(hostname, rdtype, timeout))
         /\ \/ \E items \in AddressAnswers, elapsed \in 0..timeout :
                 /\ resolved' = AddNew(resolved, items)
                 /\ lookup' = Lookup(TRUE, items)
                 /\ timeout' = TimeLeft(timeout, elapsed)
                 /\ dns_used' = dns_used + elapsed
            \/ \E elapsed \in 0..(timeout + 1) :
                 /\ UNCHANGED resolved
                 /\ lookup' = Lookup(FALSE, <<>>)
                 /\ timeout' = TimeLeft(timeout, elapsed)
                 /\ dns_used' = dns_used + elapsed

\* _get_resolved_mx_records: the AAAA lookup of the current name
ResolveAAAA ==
    /\ dns_pc = "aaaa"
    /\ IF "IPv6Address" \in address_types /\ has_ipv6
       THEN ResolveOneRecordtype(records[rec_idx], "AAAA")
       ELSE UNCHANGED <<timeout, resolved, queries, dns_used, lookup>>
    /\ dns_pc' = "a"
    /\ UNCHANGED <<domain, address_types, has_ipv6, mx_outcome, answer, records,
                   rec_idx, dns_result>>
    /\ UNCHANGED <<vars, call_vars>>

\* _get_resolved_mx_records: the A lookup of the current name
ResolveA ==
    /\ dns_pc = "a"
    /\ IF "IPv4Address" \in address_types
       THEN ResolveOneRecordtype(records[rec_idx], "A")
       ELSE UNCHANGED <<timeout, resolved, queries, dns_used, lookup>>
    /\ dns_pc' = "loop"
    /\ UNCHANGED <<domain, address_types, has_ipv6, mx_outcome, answer, records,
                   rec_idx, dns_result>>
    /\ UNCHANGED <<vars, call_vars>>

\* validate_email_or_fail: the list dns_check returned is handed to
\* smtp_check as mx_records
HandOver ==
    /\ dns_pc = "done"
    /\ dns_result.kind = "return"
    /\ dns_pc' = "handed"
    /\ hosts' = dns_result.val
    /\ pc' = "check"
    /\ UNCHANGED <<domain, address_types, has_ipv6, mx_outcome, answer, records,
                   rec_idx, timeout, resolved, queries, dns_used, lookup,
                   dns_result>>
    /\ UNCHANGED <<skip_tls, smtp_timeout, have_ssl, idx, host, command, sock,
                   ehlo_resp, helo_resp, does_esmtp, esmtp_features,
                   temporary_errors, pending, result, sent, reply, events,
                   spent>>
    /\ UNCHANGED call_vars

DnsNext ==
    \/ DnsCheckLiteral
    \/ GetMxRecords
    \/ CleanMxRecords
    \/ NextRecord
    \/ ResolveAAAA
    \/ ResolveA
    \/ HandOver

DnsSpec == DnsInit /\ [][DnsNext]_all_vars

(* ------------------------------- C16 ---------------------------------- *)

DnsDone == dns_pc \in {"done", "handed"}

DnsReturned == DnsDone /\ dns_result.kind = "return"

DnsRaised(e) == DnsDone /\ dns_result.kind = "raise" /\ dns_result.exc = e

\* C16 as stated: whenever dns_check returns normally the returned list is
\* not empty; when no valid MX name resolves to an address within the
\* timeout that is left, an MXError is raised instead.
C16_ReturnedListNonEmpty ==
    DnsReturned => dns_result.val # <<>>

\* the MX answer had a valid name, its AAAA and A lookups both failed with
\* time to spare, and dns_check returned the empty list
C16_EmptyListReturned ==
    /\ DnsReturned
    /\ dns_result.val = <<>>
    /\ records = << <<"m", "x", ".", "a", "a">> >>
    /\ Len(queries) = 3
    /\ queries[2].rdtype = "AAAA"
    /\ queries[3].rdtype = "A"
    /\ timeout > 0

(* ------------------------------- C17 ---------------------------------- *)

\* the exchange names of the answer without their trailing dots
Stripped(ans) == [i \in DOMAIN ans |-> RStrip(ans[i])]

\* the position at which x first occurs in names
FirstAt(names, x) ==
    CHOOSE i \in DOMAIN names :
        names[i] = x /\ \A j \in DOMAIN names : names[j] = x => i <= j

\* list holds each of the names that satisfy Keep exactly once, in the
\* order in which they first occur in names
FirstOccurrences(list, names, Keep(_)) ==
    /\ \A i, j \in DOMAIN list : list[i] = list[j] => i = j
    /\ Range(list) = {x \in Range(names) : Keep(x)}
    /\ \A i, j \in DOMAIN list :
          i < j => FirstAt(names, list[i]) < FirstAt(names, list[j])

AnyName(x) == TRUE

\* the MX answer has been cleaned and the lookups have not begun
AnswerCleaned == dns_pc = "loop" /\ answer # <<>>

\* C17: in _get_cleaned_mx_records every exchange name, stripped of its
\* trailing root dot, occurs at most once among the candidate hostnames,
\* the candidates stand in the order in which they first occur in the
\* answer, and the names kept after the syntax filter keep that order.
C17_FirstOccurrenceOrder ==
    AnswerCleaned
    => /\ FirstOccurrences(ToCheck(answer), Stripped(answer), AnyName)
       /\ FirstOccurrences(records, Stripped(answer), HostRegexSearch)

\* 'mx.aa.' twice with another host name in between, once with and once
\* without the root dot: it is kept once, in front
C17_Witness ==
    /\ AnswerCleaned
    /\ answer = << <<"m", "x", ".", "a", "a", ".">>,
                   <<"m", "2", ".", "a", "a", ".">>,
                   <<"m", "x", ".", "a", "a">> >>
    /\ records = << <<"m", "x", ".", "a", "a">>, <<"m", "2", ".", "a", "a">> >>

(* ------------------------------- C18 ---------------------------------- *)

\* the name does not pass the syntax check of the cleaning
FailsSyntaxCheck(name) == ~HostRegexSearch(RStrip(name))

\* an MX answer has been cleaned, and none of its names passes the check
OnlyInvalidNames ==
    /\ mx_outcome = "answer"
    /\ dns_pc # "clean"
    /\ answer # <<>>
    /\ \A i \in DOMAIN answer : FailsSyntaxCheck(answer[i])

Bracketed == domain # <<>> /\ domain[1] = "[" /\ domain[Len(domain)] = "]"

\* what stands between the brackets
Unbracketed == SubSeq(domain, 2, Len(domain) - 1)

\* the domain is a bracketed IP address
LiteralIpDomain == Bracketed /\ IpAddressType(Unbracketed) # "ValueError"

\* C19 as stated: when the domain is a bracketed literal IP, dns_check
\* issues no DNS query and returns the one-element list holding that IP
\* without the brackets.
C19_LiteralReturned ==
    (LiteralIpDomain /\ DnsDone)
    => /\ queries = <<>>
       /\ dns_result = DnsReturn(<<Unbracketed>>)

\* C19 (amended): when the domain is a bracketed literal IP, dns_check
\* issues no DNS query; if the type of the address is among address_types
\* (as always with the default, which holds both types) it returns the
\* one-element list holding that IP without the brackets, and otherwise it
\* raises NoValidMXError.
C19_LiteralShortCircuits ==
    LiteralIpDomain
    => /\ queries = <<>>
       /\ mx_outcome = "none"
       /\ DnsDone
          => dns_result =
                 IF IpAddressType(Unbracketed) \in address_types
                 THEN DnsReturn(<<Unbracketed>>)
                 ELSE DnsRaise("NoValidMXError")

\* dns_check returned the address of '[1.2.3.4]' without asking anything
C19_Witness ==
    /\ DnsDone
    /\ domain = <<"[", "1", ".", "2", ".", "3", ".", "4", "]">>
    /\ dns_result = DnsReturn(<< <<"1", ".", "2", ".", "3", ".", "4">> >>)
    /\ queries = <<>>

(* ------------------------------- C20 ---------------------------------- *)

\* the six DNS errors
DnsErrors ==
    {"DomainNotFoundError", "NoNameserverError", "DNSTimeoutError",
     "DNSConfigurationError", "NoMXError", "NoValidMXError"}

\* the MX query of a host-name domain ended in a way that leaves no name:
\* with one of the resolver's failures, or with an answer that has been
\* cleaned and holds no valid name
MxCause ==
    IF mx_outcome = "answer"
    THEN IF OnlyInvalidNames THEN "no valid name" ELSE "none"
    ELSE mx_outcome

\* the error C20 names for each cause
ErrorNamedFor(cause) ==
    CASE cause = "NXDOMAIN" -> "DomainNotFoundError"
      [] cause = "NoNameservers" -> "NoNameserverError"
      [] cause = "Timeout" -> "DNSTimeoutError"
      [] cause = "YXDOMAIN" -> "DNSConfigurationError"
      [] cause = "NoAnswer" -> "NoMXError"
      [] cause = "no valid name" -> "NoValidMXError"
      [] OTHER -> "none"

LabelsOf(name) ==
    LET n == Len(name)
        cuts == {0} \cup {k \in 1..n : name[k] = "."} \cup {n + 1}
        after(b) == CHOOSE c \in cuts : c > b /\ \A d \in cuts : d > b => c <= d
    IN  [b \in cuts \ {n + 1} |-> SubSeq(name, b + 1, after(b) - 1)]

\* the label rules, applied to the whole name: every label has 1 to 63
\* characters, all of them letters, digits or hyphens, none starts or ends
\* with a hyphen, and the last label has at least 2 characters
ObeysLabelRules(name) ==
    LET labels == LabelsOf(name)
        last == CHOOSE b \in DOMAIN labels : \A c \in DOMAIN labels : c <= b
    IN  /\ \A b \in DOMAIN labels :
              LET u == labels[b]
              IN  /\ 1 <= Len(u) /\ Len(u) <= 63
                  /\ \A i \in DOMAIN u : u[i] \in Alnum \cup {"-"}
                  /\ u[1] # "-"
                  /\ u[Len(u)] # "-"
        /\ Len(labels[last]) >= 2

\* C21: an MX hostname is kept as a candidate only if the whole name
\* satisfies the label rules; a name that violates a rule anywhere in the
\* string is discarded.
C21_KeptNamesObeyLabelRules ==
    \A i \in DOMAIN records : ObeysLabelRules(records[i])

\* the name '_x.aa', whose first label contains an underscore, was kept and
\* is looked up
C21_InvalidNameKept ==
    /\ dns_pc = "aaaa"
    /\ records[rec_idx] = <<"_", "x", ".", "a", "a">>
    /\ ~ObeysLabelRules(records[rec_idx])

(***************************************************************************)
(* The address: validate_email/email_address.py.                           *)
(*                                                                         *)
(* EmailAddress.__init__ splits the raw string at its last "@" and         *)
(* converts the domain to its ASCII-compatible encoding with idna's        *)
(* encode, unless the domain is a bracketed literal.  A string is the      *)
(* sequence of its characters.  The encoder is modelled as idna.core runs  *)
(* it: the domain is split at its dots, an empty label is an error, an     *)
(* ASCII label is checked and handed back as it is, and a label with       *)
(* other characters is checked and replaced by "xn--" and its Punycode.    *)
(***************************************************************************)

(* ------------------------------ bounds -------------------------------- *)

\* longest raw address
MaxAddress == 5

\* the characters raw addresses are made of: a letter, the dot, the at
\* sign, the brackets, and a letter outside ASCII (written as its code
\* point)
AddressChars == {"a", ".", "@", "[", "]", "U+00FC"}

\* the raw strings EmailAddress is constructed from
RawAddresses == UNION {[1..n -> AddressChars] : n \in 0..MaxAddress}

(* --------------------------- pure functions --------------------------- *)

\* (changed: the string is split at its first "@")
SplitAtFirst(s) ==
    IF \E k \in DOMAIN s : s[k] = "@"
    THEN CHOOSE k \in DOMAIN s : s[k] = "@" /\ \A j \in 1..(k - 1) : s[j] # "@"
    ELSE 0

\* self._address.rsplit('@', 1): the position of the last "@", 0 when
\* there is none (the unpacking then raises ValueError)
RSplitAt(s) ==
    IF \E k \in DOMAIN s : s[k] = "@"
    THEN CHOOSE k \in DOMAIN s :
             s[k] = "@" /\ \A j \in (k + 1)..Len(s) : s[j] # "@"
    ELSE 0

\* _unicode_dots_re.split(s), for the dot of the model
RECURSIVE SplitDots(_)
SplitDots(s) ==
    IF \E k \in DOMAIN s : s[k] = "."
    THEN LET k == CHOOSE i \in DOMAIN s :
                      s[i] = "." /\ \A j \in 1..(i - 1) : s[j] # "."
         IN  <<SubSeq(s, 1, k - 1)>> \o SplitDots(SubSeq(s, k + 1, Len(s)))
    ELSE <<s>>

\* b'.'.join(result)
RECURSIVE JoinDots(_)
JoinDots(labels) ==
    IF labels = <<>> THEN <<>>
    ELSE IF Len(labels) = 1 THEN labels[1]
    ELSE labels[1] \o <<".">> \o JoinDots(SubSeq(labels, 2, Len(labels)))

\* the digits of Punycode (RFC 3492): a..z stand for 0..25, 0..9 for 26..35
PunyDigits ==
    <<"a", "b", "c", "d", "e", "f", "g", "h", "i", "j", "k", "l", "m",
      "n", "o", "p", "q", "r", "s", "t", "u", "v", "w", "x", "y", "z",
      "0", "1", "2", "3", "4", "5", "6", "7", "8", "9">>

\* ord(c): "U+00FC" stands for the letter u with diaeresis, code point
\* 252; every other character of the model is ASCII, and of an ASCII
\* character only "below 128" is ever used
CodePoint(c) == IF c = "U+00FC" THEN 252 ELSE 97

\* the bias adaptation of Punycode
RECURSIVE PunyAdaptLoop(_, _)
PunyAdaptLoop(delta, k) ==
    IF delta > 455
    THEN PunyAdaptLoop(delta \div 35, k + 36)
    ELSE k + (36 * delta) \div (delta + 38)

PunyAdapt(delta, numpoints, first) ==
    LET d == IF first THEN delta \div 700 ELSE delta \div 2
    IN  PunyAdaptLoop(d + d \div numpoints, 0)

\* a delta as a generalized variable-length integer
RECURSIVE PunyVarint(_, _, _)
PunyVarint(q, k, bias) ==
    LET t == IF k <= bias THEN 1 ELSE IF k >= bias + 26 THEN 26 ELSE k - bias
    IN  IF q < t
        THEN <<PunyDigits[q + 1]>>
        ELSE <<PunyDigits[t + ((q - t) % (36 - t)) + 1]>>
             \o PunyVarint((q - t) \div (36 - t), k + 36, bias)

\* one pass over the label for the code point n
RECURSIVE PunyPass(_, _, _, _, _)
PunyPass(s, i, n, b, st) ==
    IF i > Len(s) THEN st
    ELSE IF CodePoint(s[i]) < n
    THEN PunyPass(s, i + 1, n, b, [st EXCEPT !.delta = @ + 1])
    ELSE IF CodePoint(s[i]) = n
    THEN PunyPass(s, i + 1, n, b,
                  [delta |-> 0,
                   bias |-> PunyAdapt(st.delta, st.h + 1, st.h = b),
                   h |-> st.h + 1,
                   out |-> st.out \o PunyVarint(st.delta, 36, st.bias)])
    ELSE PunyPass(s, i + 1, n, b, st)

\* the passes, one for each code point of the label that is not ASCII, in
\* rising order
RECURSIVE PunyPasses(_, _, _, _)
PunyPasses(s, n, b, st) ==
    IF st.h >= Len(s) THEN st.out
    ELSE LET above == {CodePoint(s[i]) : i \in DOMAIN s} \ (0..(n - 1))
             m == CHOOSE c \in above : \A d \in above : c <= d
             done == PunyPass(s, 1, m, b,
                              [st EXCEPT !.delta = @ + (m - n) * (st.h + 1)])
         IN  PunyPasses(s, m + 1, b, [done EXCEPT !.delta = @ + 1])

\* str.encode('punycode'): the ASCII characters of the label, a hyphen if
\* there are any, and the encoded positions of the others
Punycode(s) ==
    LET ascii(c) == CodePoint(c) < 128
        basic == SelectSeq(s, ascii)
    IN  PunyPasses(s, 128, Len(basic),
                   [delta |-> 0, bias |-> 72, h |-> Len(basic),
                    out |-> IF basic # <<>> THEN Append(basic, "-") ELSE <<>>])

\* the code points idna lets into a label (PVALID): lower-case letters,
\* digits, the hyphen, and U+00FC
IdnaPValid ==
    {"a", "d", "e", "m", "q", "s", "w", "x", "1", "2", "3", "4", "-",
     "U+00FC"}

\* idna.core.check_label: not empty, no hyphens in the 3rd and 4th place,
\* none at either end, only code points that are allowed
CheckLabel(label) ==
    /\ label # <<>>
    /\ ~(Len(label) >= 4 /\ label[3] = "-" /\ label[4] = "-")
    /\ label[1] # "-"
    /\ label[Len(label)] # "-"
    /\ \A i \in DOMAIN label : label[i] \in IdnaPValid

\* an encoder's answer: the encoded text, or IDNAError
Encoded(text) == [ok |-> TRUE, val |-> text]

IDNAError == [ok |-> FALSE, val |-> <<>>]

\* (changed: every label is encoded, the ASCII ones too)
AlabelAlwaysPunycode(label) ==
    IF ~CheckLabel(label) THEN IDNAError
    ELSE Encoded(<<"x", "n", "-", "-">> \o Punycode(label))

\* idna.core.alabel: a label that encodes as ASCII is checked (ulabel) and
\* returned as it is; any other label is checked and returned as "xn--"
\* and its Punycode; either way at most 63 characters.  (No label of the
\* model starts with "xn--".)
Alabel(label) ==
    IF \A i \in DOMAIN label : CodePoint(label[i]) < 128
    THEN IF CheckLabel(label) /\ Len(label) <= 63
         THEN Encoded(label)
         ELSE IDNAError
    ELSE IF ~CheckLabel(label) THEN IDNAError
    ELSE LET label_bytes == <<"x", "n", "-", "-">> \o Punycode(label)
         IN  IF Len(label_bytes) <= 63 THEN Encoded(label_bytes) ELSE IDNAError

\* (changed: an empty domain is let through)
IdnaEmptyDomainNever(labels) == FALSE

\* idna.core.encode: "if not labels or labels == ['']: raise
\* IDNAError('Empty domain')"
IdnaEmptyDomain(labels) == labels = <<>> \/ labels = << <<>> >>

\* idna.core.encode(s): the labels are encoded one by one; a trailing dot
\* is kept
IdnaEncode(s) ==
    LET split == SplitDots(s)
        trailing_dot == split[Len(split)] = <<>>
        labels == IF trailing_dot THEN SubSeq(split, 1, Len(split) - 1)
                  ELSE split
        encoded_labels == [i \in DOMAIN labels |-> Alabel(labels[i])]
        joined == JoinDots([i \in DOMAIN labels |-> encoded_labels[i].val]
                           \o (IF trailing_dot THEN << <<>> >> ELSE <<>>))
    IN  IF IdnaEmptyDomain(split) THEN IDNAError
        ELSE IF \E i \in DOMAIN labels : ~encoded_labels[i].ok THEN IDNAError
        ELSE IF Len(joined) > (IF trailing_dot THEN 254 ELSE 253) THEN IDNAError
        ELSE Encoded(joined)

\* EmailAddress.ace: '@'.join((self._user, self._ace_domain))
Ace == user \o <<"@">> \o ace_domain

(* ------------------------------- Init --------------------------------- *)

\* the call EmailAddress(address)
AddressInit ==
    /\ address \in RawAddresses
    /\ user = <<>>
    /\ ace_domain = <<>>
    /\ ea_pc = "new"
    /\ encoded = <<>>
    /\ SmtpOff
    /\ DnsOff
    /\ ApiOff
    /\ MxOff
    /\ UpOff

(* ---------------------------- the steps ------------------------------- *)

\* EmailAddress.__init__
Construct ==
    /\ ea_pc = "new"
    /\ LET at == RSplitAt(address)
           _user == SubSeq(address, 1, at - 1)
           _domain == SubSeq(address, at + 1, Len(address))
       IN  IF at = 0
           THEN \* ValueError: raise AddressFormatError
                /\ ea_pc' = "AddressFormatError"
                /\ UNCHANGED <<user, domain, ace_domain, encoded>>
           ELSE /\ user' = _user
                /\ domain' = _domain
                /\ IF DomainLiteralIp(_domain) # <<>>
                   THEN /\ ace_domain' = _domain
                        /\ ea_pc' = "constructed"
                        /\ UNCHANGED encoded
                   ELSE /\ encoded' = Append(encoded, _domain)
                        /\ IF IdnaEncode(_domain).ok
                           THEN /\ ace_domain' = IdnaEncode(_domain).val
                                /\ ea_pc' = "constructed"
                           ELSE \* IDNAError: raise AddressFormatError
                                /\ ea_pc' = "AddressFormatError"
                                /\ UNCHANGED ace_domain
    /\ UNCHANGED <<address, address_types, has_ipv6, dns_pc, mx_outcome, answer,
                   records, rec_idx, timeout, resolved, queries, dns_used,
                   lookup, dns_result>>
    /\ UNCHANGED vars

\* the constructor called on its own
AddressNext == Construct /\ UNCHANGED <<api_vars, mx_vars, up_vars>>

AddressSpec == AddressInit /\ [][AddressNext]_all_vars

(* ------------------------------- C26 ---------------------------------- *)

\* the positions of the at signs in a string
AtSigns(s) == {k \in DOMAIN s : s[k] = "@"}

\* the position of the last at sign of the raw address
LastAtSign == CHOOSE k \in AtSigns(address) : \A j \in AtSigns(address) : j <= k

\* C26: for every raw string with at least one '@' that EmailAddress
\* accepts, user is the text before the last '@' and domain the text after
\* it: user + '@' + domain is the raw string, and domain contains no '@'.
C26_SplitAtLastAt ==
    (ea_pc = "constructed" /\ AtSigns(address) # {})
    => /\ user = SubSeq(address, 1, LastAtSign - 1)
       /\ domain = SubSeq(address, LastAtSign + 1, Len(address))
       /\ user \o <<"@">> \o domain = address
       /\ AtSigns(domain) = {}

\* an accepted address with two at signs: the first one belongs to the user
C26_Witness ==
    /\ ea_pc = "constructed"
    /\ address = <<"a", "@", "@", "a">>
    /\ user = <<"a", "@">>
    /\ domain = <<"a">>

(* ------------------------------- C27 ---------------------------------- *)

\* the constructor has returned or raised
Constructing == ea_pc \in {"constructed", "AddressFormatError"}

\* the raw address has no at sign
NoAtSign == AtSigns(address) = {}

\* the raw address has nothing before its last at sign
EmptyBefore == ~NoAtSign /\ LastAtSign = 1

\* the raw address has nothing after its last at sign
EmptyAfter == ~NoAtSign /\ LastAtSign = Len(address)

\* C27 (as stated): constructing EmailAddress fails with AddressFormatError
\* whenever the raw string has no '@', or the part before the last '@' is
\* empty, or the part after it is empty; no constructed EmailAddress has an
\* empty user or an empty domain.
C27_EmptySideFails ==
    Constructing
    => /\ (NoAtSign \/ EmptyBefore \/ EmptyAfter) => ea_pc = "AddressFormatError"
       /\ ea_pc = "constructed" => (user # <<>> /\ domain # <<>>)

\* C27 (amended): constructing EmailAddress fails with AddressFormatError
\* whenever the raw string has no '@' or the part after the last '@' is
\* empty; no constructed EmailAddress has an empty domain.  (An empty part
\* before the last '@' does not make the constructor fail.)
C27_NoAtOrEmptyDomainFails ==
    Constructing
    => /\ (NoAtSign \/ EmptyAfter) => ea_pc = "AddressFormatError"
       /\ ea_pc = "constructed" => domain # <<>>

\* 'a@': the empty domain went to the encoder, which refused it
C27_Witness ==
    /\ ea_pc = "AddressFormatError"
    /\ address = <<"a", "@">>
    /\ EmptyAfter
    /\ encoded = << <<>> >>

(* ------------------------------- C28 ---------------------------------- *)

\* the string has only ASCII characters
AsciiOnly(s) == \A i \in DOMAIN s : s[i] \in AddressChars \ {"U+00FC"}

\* C28: for an address whose domain is a bracketed literal, the IDNA
\* encoder is never invoked and ace equals the raw address; for an accepted
\* address with an ASCII-only domain, ace equals the raw address too.
C28_AceIsRawAddress ==
    ea_pc = "constructed"
    => /\ Bracketed => (encoded = <<>> /\ Ace = address)
       /\ AsciiOnly(domain) => Ace = address

\* 'a@a.a': the encoder was called with the ASCII domain and handed it back
C28_Witness ==
    /\ ea_pc = "constructed"
    /\ address = <<"a", "@", "a", ".", "a">>
    /\ encoded = << <<"a", ".", "a">> >>
    /\ AsciiOnly(domain)
    /\ Ace = address

\* 'a@[a]': the bracketed domain was taken as it is, without the encoder
C28_LiteralWitness ==
    /\ ea_pc = "constructed"
    /\ address = <<"a", "@", "[", "a", "]">>
    /\ Bracketed
    /\ encoded = <<>>
    /\ Ace = address

(* ------------------------------- C30 ---------------------------------- *)

\* a greeting was written to the current connection
OwnGreeting == \E i \in DOMAIN sent : sent[i] \in {"ehlo", "helo"}

\* nothing of an earlier session is left in the checker
SessionCleared ==
    /\ sock = "none"
    /\ ~ehlo_resp
    /\ ~helo_resp
    /\ ~does_esmtp
    /\ esmtp_features = {}

\* C30: the one _SMTPChecker is used for all hosts, and no session state
\* leaks from a host to the next: when the probe of the next host starts,
\* the socket is closed and the stored EHLO/HELO responses and ESMTP
\* features are cleared, and MAIL FROM is sent to a host only after a
\* greeting on its own connection, however the probe before it ended.
C30_NoSessionStateLeaks ==
    /\ [][idx' = idx + 1 => SessionCleared]_vars
    /\ [][(pc = "mail" /\ pc' # "mail") => OwnGreeting]_vars

\* the first host was greeted and then lost the connection at MAIL FROM;
\* the second host has got its own EHLO and is about to get MAIL FROM
C30_Witness ==
    /\ idx = 2
    /\ Len(events) = 1
    /\ events[1] = Event("mail", "disconnected", 0)
    /\ pc = "mail"
    /\ sent = <<"ehlo">>
    /\ ehlo_resp

(* ------------------------------- C29 ---------------------------------- *)

\* C29 (as stated): the SMTP timeout is a budget shared by all hosts of
\* one check: the time spent on all hosts together never exceeds the
\* timeout by more than one command in flight (which takes the timeout at
\* most), and once the budget is used up the remaining hosts are skipped.
C29_TimeoutIsSharedBudget ==
    /\ [](spent <= smtp_timeout + smtp_timeout)
    /\ [][(pc = "check" /\ spent >= smtp_timeout) => idx' = idx]_vars

\* C29 (amended): the SMTP timeout is not a budget shared by the hosts;
\* check never looks at the time spent: as long as there are hosts left,
\* the next one is probed, whatever time the hosts before it have taken.
C29_EveryHostProbedWhateverTheTime ==
    [][(pc = "check" /\ idx < Len(hosts)) => idx' = idx + 1]_vars

\* the third host is being probed although the first two have each used
\* up the whole timeout, twice the timeout together
C29_Witness ==
    /\ spent >= smtp_timeout + smtp_timeout
    /\ idx = 3
    /\ Len(events) = 2
    /\ sock = "plain"
    /\ pc = "rcpt"

(* ====================================================================== *)
(* validate_email/validate_email.py: validate_email_or_fail runs the      *)
(* checks in turn, validate_email turns its exceptions into values.       *)
(* ====================================================================== *)

\* the addresses checked: an ordinary one, one without "@", one with a
\* bracketed IPv4 address and one with brackets around no address
ApiAddresses ==
    { <<"a", "@", "a", "a", ".", "a", "a">>,
      <<"a", "a">>,
      <<"a", "@", "[", "1", ".", "2", ".", "3", ".", "4", "]">>,
      <<"a", "@", "[", "x", "]">> }

\* the values of smtp_from_address: None, an address, and a string
\* without "@"
FromAddresses == { <<>>, <<"a", "@", "a">>, <<"a">> }

\* the blacklists loaded: an empty one and one that lists a domain
Blacklists == { {}, {<<"a", "a", ".", "a", "a">>} }

\* the values of dns_timeout
ApiDnsTimeouts == {1}

\* EmailAddress(address=raw) raises AddressFormatError
RaisesAddressFormatError(raw) ==
    LET at == RSplitAt(raw)
        _domain == SubSeq(raw, at + 1, Len(raw))
    IN  \/ at = 0
        \/ DomainLiteralIp(_domain) = <<>> /\ ~IdnaEncode(_domain).ok

\* the subclasses of EmailValidationError (exceptions.py)
EmailValidationErrors ==
    {"AddressFormatError", "DomainBlacklistedError", "DomainNotFoundError",
     "NoNameserverError", "DNSTimeoutError", "DNSConfigurationError",
     "NoMXError", "NoValidMXError", "AddressNotDeliverableError",
     "SMTPCommunicationError", "SMTPTemporaryError"}

\* validate_email_or_fail ends
ApiEnds(r) ==
    /\ api_result' = r
    /\ api_pc' = "returned"

(* ------------------------------- Init --------------------------------- *)

\* the call validate_email(email_address, **kwargs); the blacklist was
\* loaded when the module was imported
ApiInit ==
    /\ address \in ApiAddresses
    /\ user = <<>>
    /\ ace_domain = <<>>
    /\ ea_pc = "new"
    /\ encoded = <<>>
    /\ api_pc = "EmailAddress"
    /\ check_format \in BOOLEAN
    /\ check_blacklist \in BOOLEAN
    /\ check_dns \in BOOLEAN
    /\ check_smtp \in BOOLEAN
    /\ smtp_from_address \in FromAddresses
    /\ domain_blacklist \in Blacklists
    /\ api_result = Running
    /\ ve_result = NotEnded
    /\ calls = <<>>
    /\ SmtpOff
    /\ DnsOff
    /\ MxOff
    /\ UpOff

(* ---------------------------- the steps ------------------------------- *)

\* "email_address_to = EmailAddress(address=email_address)"
ParseAddress ==
    /\ api_pc = "EmailAddress"
    /\ Construct
    /\ calls' = Append(calls, "EmailAddress")
    /\ IF ea_pc' = "constructed"
       THEN /\ api_pc' = "regex_check"
            /\ UNCHANGED api_result
       ELSE ApiEnds(Raise("AddressFormatError", EmptyDict))
    /\ UNCHANGED <<check_format, check_blacklist, check_dns, check_smtp,
                   smtp_from_address, domain_blacklist, ve_result>>
    /\ UNCHANGED <<mx_vars, up_vars>>

\* "if check_format: regex_check(email_address=email_address_to)":
\* regex_check returns, or raises AddressFormatError
RegexCheck ==
    /\ api_pc = "regex_check"
    /\ IF check_format
       THEN /\ calls' = Append(calls, "regex_check")
            /\ \/ /\ api_pc' = "domainlist_check"
                  /\ UNCHANGED api_result
               \/ ApiEnds(Raise("AddressFormatError", EmptyDict))
       ELSE /\ api_pc' = "domainlist_check"
            /\ UNCHANGED <<calls, api_result>>
    /\ UNCHANGED <<check_format, check_blacklist, check_dns, check_smtp,
                   smtp_from_address, domain_blacklist, ve_result>>
    /\ UNCHANGED <<vars, dns_vars, ea_vars, mx_vars, up_vars>>

\* (changed: no domain counts as blacklisted)
BlacklistedNever(d, whitelist, blacklist) == FALSE

\* DomainListValidator.__call__ raises DomainBlacklistedError
Blacklisted(d, whitelist, blacklist) ==
    d \notin whitelist /\ d \in blacklist

\* "if check_blacklist: domainlist_check(email_address=email_address_to)",
\* with DomainListValidator.__call__; the whitelist of the module-level
\* object is empty
DomainlistCheck ==
    /\ api_pc = "domainlist_check"
    /\ IF check_blacklist
       THEN /\ calls' = Append(calls, "domainlist_check")
            /\ IF Blacklisted(domain, {}, domain_blacklist)
               THEN ApiEnds(Raise("DomainBlacklistedError", EmptyDict))
               ELSE /\ api_pc' = "dns_check"
                    /\ UNCHANGED api_result
       ELSE /\ api_pc' = "dns_check"
            /\ UNCHANGED <<calls, api_result>>
    /\ UNCHANGED <<check_format, check_blacklist, check_dns, check_smtp,
                   smtp_from_address, domain_blacklist, ve_result>>
    /\ UNCHANGED <<vars, dns_vars, ea_vars, mx_vars, up_vars>>

\* "if not check_dns and not check_smtp: return True", else
\* "mx_records = dns_check(email_address=..., timeout=dns_timeout)";
\* address_types is not passed and has dns_check's default
CallDnsCheck ==
    /\ api_pc = "dns_check"
    /\ IF ~check_dns /\ ~check_smtp
       THEN /\ ApiEnds(Return(TRUE))
            /\ UNCHANGED <<calls, dns_vars>>
       ELSE /\ calls' = Append(calls, "dns_check")
            /\ api_pc' = "resolving"
            /\ dns_pc' = "dns_check"
            /\ timeout' \in ApiDnsTimeouts
            /\ address_types' = {"IPv4Address", "IPv6Address"}
            /\ has_ipv6' \in BOOLEAN
            /\ UNCHANGED <<domain, mx_outcome, answer, records, rec_idx,
                           resolved, queries, dns_used, lookup, dns_result,
                           api_result>>
    /\ UNCHANGED <<check_format, check_blacklist, check_dns, check_smtp,
                   smtp_from_address, domain_blacklist, ve_result>>
    /\ UNCHANGED <<vars, ea_vars, mx_vars, up_vars>>

\* "if not check_smtp: return True"
ProbeSkipped(flag) == ~flag

\* dns_check has ended: its exception passes through; "if not check_smtp:
\* return True"; the from address is parsed ("except AddressFormatError:
\* raise FromAddressFormatError"); "return smtp_check(...)" is called
AfterDnsCheck ==
    /\ api_pc = "resolving"
    /\ dns_pc = "done"
    /\ IF dns_result.kind = "raise"
       THEN /\ ApiEnds(Raise(dns_result.exc, EmptyDict))
            /\ UNCHANGED <<calls, vars>>
       ELSE IF ProbeSkipped(check_smtp)
       THEN /\ ApiEnds(Return(TRUE))
            /\ UNCHANGED <<calls, vars>>
       ELSE IF smtp_from_address # <<>>
               /\ RaisesAddressFormatError(smtp_from_address)
       THEN /\ ApiEnds(Raise("FromAddressFormatError", EmptyDict))
            /\ calls' = Append(calls, "EmailAddress")
            /\ UNCHANGED vars
       ELSE /\ calls' = IF smtp_from_address # <<>>
                        THEN calls \o <<"EmailAddress", "smtp_check">>
                        ELSE Append(calls, "smtp_check")
            /\ api_pc' = "probing"
            /\ hosts' = dns_result.val
            /\ pc' = "check"
            /\ skip_tls' \in BOOLEAN
            /\ smtp_timeout' \in SmtpTimeouts
            /\ have_ssl' \in BOOLEAN
            /\ UNCHANGED <<idx, host, command, sock, ehlo_resp, helo_resp,
                           does_esmtp, esmtp_features, temporary_errors,
                           pending, result, sent, reply, events, spent,
                           api_result>>
    /\ UNCHANGED <<check_format, check_blacklist, check_dns, check_smtp,
                   smtp_from_address, domain_blacklist, ve_result>>
    /\ UNCHANGED <<dns_vars, ea_vars, mx_vars, up_vars>>

\* smtp_check has ended: what it returns is returned, what it raises
\* passes through
AfterSmtpCheck ==
    /\ api_pc = "probing"
    /\ pc = "done"
    /\ ApiEnds(result)
    /\ UNCHANGED <<check_format, check_blacklist, check_dns, check_smtp,
                   smtp_from_address, domain_blacklist, ve_result, calls>>
    /\ UNCHANGED <<vars, dns_vars, ea_vars, mx_vars, up_vars>>

\* (changed: a temporary error counts as a failure)
ValidateEmailResultNeverNone(r) ==
    IF r.kind = "return" THEN Returns(IF r.val THEN "True" ELSE "False")
    ELSE IF r.exc \in EmailValidationErrors THEN Returns("False")
    ELSE Raises(r.exc)

\* (changed: every exception is caught and counts as a failure)
ValidateEmailResultCatchesAll(r) ==
    IF r.kind = "return" THEN Returns(IF r.val THEN "True" ELSE "False")
    ELSE IF r.exc = "SMTPTemporaryError" THEN Returns("None")
    ELSE Returns("False")

\* validate_email: the result is returned; "except SMTPTemporaryError:
\* return"; "except EmailValidationError: return False"; any other
\* exception passes through
ValidateEmailResult(r) ==
    IF r.kind = "return" THEN Returns(IF r.val THEN "True" ELSE "False")
    ELSE IF r.exc = "SMTPTemporaryError" THEN Returns("None")
    ELSE IF r.exc \in EmailValidationErrors THEN Returns("False")
    ELSE Raises(r.exc)

\* validate_email, once validate_email_or_fail has ended
ValidateEmail ==
    /\ api_pc = "returned"
    /\ ve_result' = ValidateEmailResult(api_result)
    /\ api_pc' = "done"
    /\ UNCHANGED <<check_format, check_blacklist, check_dns, check_smtp,
                   smtp_from_address, domain_blacklist, api_result, calls>>
    /\ UNCHANGED <<vars, dns_vars, ea_vars, mx_vars, up_vars>>

\* the MX answers and the address lists of the calls through
\* validate_email: one exchange and one address at most
ApiAnswers == Len(answer') <= 1 /\ Len(resolved') <= 1

ApiNext ==
    \/ ParseAddress
    \/ RegexCheck
    \/ DomainlistCheck
    \/ CallDnsCheck
    \/ DnsCheckLiteral
    \/ GetMxRecords /\ ApiAnswers
    \/ CleanMxRecords
    \/ NextRecord
    \/ ResolveAAAA /\ ApiAnswers
    \/ ResolveA /\ ApiAnswers
    \/ AfterDnsCheck
    \/ Next
    \/ AfterSmtpCheck
    \/ ValidateEmail

ApiDone == api_pc \in {"returned", "done"}

ApiTypeOK ==
    /\ api_pc \in {"EmailAddress", "regex_check", "domainlist_check",
                   "dns_check", "resolving", "probing", "returned", "done"}
    /\ api_result.kind \in {"running", "return", "raise"}
    /\ (api_pc \in {"returned", "done"}) = (api_result.kind # "running")
    /\ (api_pc = "done") = (ve_result.kind # "running")

(* ====================================================================== *)
(* validate_email/mx_check.py: mx_check finds the hosts and lets its      *)
(* _SMTPChecker probe them.  _check_one is one step: what the host does   *)
(* (the event that ends its probe) is the input.                          *)
(* ====================================================================== *)

\* the MX answers mx_check is given: two exchanges at most
MxCheckAnswers == {ans \in MxAnswers : Len(ans) <= 2}

\* how the probe of one host ends: the connection is refused or lost at a
\* command (SMTPServerDisconnected); a reply of 400 or more to the
\* connection or to MAIL FROM, a refused greeting or a reply other than
\* 220 to STARTTLS (SMTPResponseException); the TLS handshake fails
\* (ssl.SSLError); or RCPT TO is answered
MxHostEvents ==
    {Event(st, "disconnected", 0) :
        st \in {"connect", "ehlo", "starttls", "mail", "rcpt"}}
    \cup {Event(st, "reply", c) : st \in {"connect", "ehlo", "mail"},
                                  c \in {451, 550}}
    \cup {Event("starttls", "reply", c) : c \in {250, 451}}
    \cup {Event("handshake", "sslerror", 0)}
    \cup {Event("rcpt", "reply", c) : c \in {250, 451, 550}}

\* mx_check is called
MxCheckInit ==
    /\ mx_pc = "resolve"
    /\ mx_domain \in Domains
    /\ skip_smtp \in BOOLEAN
    /\ raise_communication_errors \in BOOLEAN
    /\ raise_temporary_errors \in BOOLEAN
    /\ mx_records = <<>>
    /\ mx_idx = 0
    /\ communication_errors = EmptyDict
    /\ mx_temporary_errors = EmptyDict
    /\ mx_resolution = "none"
    /\ mx_events = <<>>
    /\ mx_result = NotEnded
    /\ SmtpOff
    /\ DnsOff
    /\ EaOff
    /\ ApiOff
    /\ UpOff

\* mx_check ends
MxEnds(r) ==
    /\ mx_result' = r
    /\ mx_pc' = "done"

\* mx_check: "if skip_smtp: return True"
SmtpSkipped(flag) == flag

\* mx_check up to the call of check: the literal address or the cleaned
\* MX names (_get_cleaned_mx_records, _get_mx_records), then
\* "if skip_smtp: return True"
MxResolve ==
    /\ mx_pc = "resolve"
    /\ \/ /\ DomainLiteralIp(mx_domain) # <<>>
          /\ mx_resolution' = "literal"
          /\ mx_records' = <<DomainLiteralIp(mx_domain)>>
          /\ IF SmtpSkipped(skip_smtp)
             THEN MxEnds(Returns("True"))
             ELSE mx_pc' = "check" /\ UNCHANGED mx_result
       \/ /\ DomainLiteralIp(mx_domain) = <<>>
          /\ \E f \in MxFailures :
               /\ mx_resolution' = f
               /\ MxEnds(Raises(MxError(f)))
               /\ UNCHANGED mx_records
       \/ /\ DomainLiteralIp(mx_domain) = <<>>
          /\ \E ans \in MxCheckAnswers :
               LET result_ == OnlyValid(ToCheck(ans))
               IN  /\ mx_resolution' = "answer"
                   /\ IF NoValidMX(result_)
                      THEN /\ MxEnds(Raises("NoValidMXError"))
                           /\ UNCHANGED mx_records
                      ELSE /\ mx_records' = result_
                           /\ IF SmtpSkipped(skip_smtp)
                              THEN MxEnds(Returns("True"))
                              ELSE mx_pc' = "check" /\ UNCHANGED mx_result
    /\ UNCHANGED <<mx_domain, skip_smtp, raise_communication_errors,
                   raise_temporary_errors, mx_idx, communication_errors,
                   mx_temporary_errors, mx_events>>
    /\ UNCHANGED <<vars, dns_vars, ea_vars, api_vars, up_vars>>

\* check: the next host of the for loop, with _check_one and the methods
\* it calls.  SMTPServerDisconnected and SMTPResponseException are kept in
\* communication_errors; rcpt raises AddressNotDeliverableError for 500
\* and more and keeps a 4xx in temporary_errors; an ssl.SSLError is not
\* caught; "return (code < 400)"
MxCheckOne ==
    /\ mx_pc = "check"
    /\ mx_idx < Len(mx_records)
    /\ mx_idx' = mx_idx + 1
    /\ \E ev \in MxHostEvents :
         LET h == mx_records[mx_idx + 1]
         IN  /\ mx_events' = Append(mx_events, ev)
             /\ IF ev.kind = "sslerror"
                THEN /\ MxEnds(Raises("SSLError"))
                     /\ UNCHANGED <<communication_errors, mx_temporary_errors>>
                ELSE IF ev.kind = "disconnected" \/ ev.at # "rcpt"
                THEN /\ communication_errors' =
                            DictSet(communication_errors, h,
                                    SMTPMessage(ev.at, ev.code, ev.kind))
                     /\ UNCHANGED <<mx_pc, mx_result, mx_temporary_errors>>
                ELSE IF ev.code >= 500
                THEN /\ MxEnds(Raises("AddressNotDeliverableError"))
                     /\ UNCHANGED <<communication_errors, mx_temporary_errors>>
                ELSE IF ev.code >= 400
                THEN /\ mx_temporary_errors' =
                            DictSet(mx_temporary_errors, h,
                                    SMTPMessage("RCPT TO", ev.code, ev.kind))
                     /\ UNCHANGED <<mx_pc, mx_result, communication_errors>>
                ELSE /\ MxEnds(Returns("True"))
                     /\ UNCHANGED <<communication_errors, mx_temporary_errors>>
    /\ UNCHANGED <<mx_domain, skip_smtp, raise_communication_errors,
                   raise_temporary_errors, mx_records, mx_resolution>>
    /\ UNCHANGED <<vars, dns_vars, ea_vars, api_vars, up_vars>>

\* (changed: the temporary errors are looked at first)
AmbiguousOutcomeTemporaryFirst(comm, temp, raise_comm, raise_temp) ==
    IF DOMAIN temp # {} /\ raise_temp THEN Raises("SMTPTemporaryError")
    ELSE IF DOMAIN comm # {} /\ raise_comm THEN Raises("SMTPCommunicationError")
    ELSE Returns("None")

\* check, after the loop: "if self.__communication_errors and
\* self.__raise_communication_errors: raise SMTPCommunicationError",
\* "if self.__temporary_errors and self.__raise_temporary_errors: raise
\* SMTPTemporaryError", "return None"
AmbiguousOutcome(comm, temp, raise_comm, raise_temp) ==
    IF DOMAIN comm # {} /\ raise_comm THEN Raises("SMTPCommunicationError")
    ELSE IF DOMAIN temp # {} /\ raise_temp THEN Raises("SMTPTemporaryError")
    ELSE Returns("None")

\* check: the loop is exhausted
MxFinish ==
    /\ mx_pc = "check"
    /\ mx_idx = Len(mx_records)
    /\ MxEnds(AmbiguousOutcome(communication_errors, mx_temporary_errors,
                               raise_communication_errors,
                               raise_temporary_errors))
    /\ UNCHANGED <<mx_domain, skip_smtp, raise_communication_errors,
                   raise_temporary_errors, mx_records, mx_idx,
                   communication_errors, mx_temporary_errors, mx_resolution,
                   mx_events>>
    /\ UNCHANGED <<vars, dns_vars, ea_vars, api_vars, up_vars>>

MxCheckNext ==
    \/ MxResolve
    \/ MxCheckOne
    \/ MxFinish

(* ------------------------ the entry points ---------------------------- *)

\* a call of validate_email, or a call of mx_check
EntrySpec == (ApiInit \/ MxCheckInit) /\ [][ApiNext \/ MxCheckNext]_all_vars

MxDone == mx_pc = "done"

(* ------------------------------- C22 ---------------------------------- *)

\* the subclasses of MXError (exceptions.py)
MXErrors ==
    {"DomainNotFoundError", "NoNameserverError", "DNSTimeoutError",
     "DNSConfigurationError", "NoMXError", "NoValidMXError"}

\* validate_email_or_fail runs with check_smtp false
ApiProbeDisabled == api_pc # "off" /\ ~check_smtp

\* mx_check runs with skip_smtp true
MxProbeDisabled == mx_pc # "off" /\ skip_smtp

\* no connection was attempted and no command sent, by either checker
NoSmtpTraffic ==
    /\ pc = "idle"
    /\ events = <<>>
    /\ sent = <<>>
    /\ mx_pc # "check"
    /\ mx_events = <<>>

\* validate_email_or_fail has ended after an MX query of dns_check
ApiEndedAfterMxQuery == ApiDone /\ dns_pc = "done" /\ mx_outcome # "none"

\* the resolution of dns_check found a host to talk to
HostFound == dns_result.kind = "return" /\ dns_result.val # <<>>

\* C22 (as stated): with the SMTP step disabled (check_smtp false in
\* validate_email_or_fail, skip_smtp true in mx_check) no SMTP connection
\* is ever attempted; the result is True once the MX resolution has
\* succeeded, and a resolution that fails (no host to talk to is found)
\* raises an MXError.
C22_DnsOnlyMode ==
    /\ (ApiProbeDisabled \/ MxProbeDisabled) => NoSmtpTraffic
    /\ (ApiProbeDisabled /\ ApiEndedAfterMxQuery) =>
            IF HostFound
            THEN api_result = Return(TRUE)
            ELSE api_result.kind = "raise" /\ api_result.exc \in MXErrors
    /\ (MxProbeDisabled /\ MxDone) =>
            IF mx_records # <<>>
            THEN mx_result = Returns("True")
            ELSE mx_result.kind = "raise" /\ mx_result.exc \in MXErrors

\* validate_email_or_fail with check_smtp false has returned True although
\* the MX name of the answer resolved to no address: dns_check returned
\* the empty list
C22_TrueWithoutHost ==
    /\ ApiProbeDisabled
    /\ ApiEndedAfterMxQuery
    /\ mx_outcome = "answer"
    /\ dns_result = DnsReturn(<<>>)
    /\ api_result = Return(TRUE)
    /\ NoSmtpTraffic

\* what does hold in DNS-only mode: no SMTP traffic, True whenever
\* dns_check (or the resolution of mx_check) returns, and the exception of
\* the resolution otherwise
C22_DnsOnlyModeAsCoded ==
    /\ (ApiProbeDisabled \/ MxProbeDisabled) => NoSmtpTraffic
    /\ (ApiProbeDisabled /\ ApiDone /\ dns_pc = "done") =>
            IF dns_result.kind = "return"
            THEN api_result = Return(TRUE)
            ELSE api_result = Raise(dns_result.exc, EmptyDict)
    /\ (MxProbeDisabled /\ MxDone) =>
            IF mx_records # <<>>
            THEN mx_result = Returns("True")
            ELSE mx_result.kind = "raise" /\ mx_result.exc \in MXErrors

(* ------------------------------- C23 ---------------------------------- *)

\* validate_email_or_fail raised the exception e
ApiRaised(e) == api_result.kind = "raise" /\ api_result.exc = e

\* C23: validate_email never lets an EmailValidationError escape: it
\* returns None exactly when validate_email_or_fail raises
\* SMTPTemporaryError, returns False when it raises any other
\* EmailValidationError, and returns validate_email_or_fail's own result
\* when that returns.
C23_WrapperTurnsErrorsIntoValues ==
    api_pc = "done" =>
        /\ ~(ve_result.kind = "raise" /\ ve_result.exc \in EmailValidationErrors)
        /\ (ve_result = Returns("None")) = ApiRaised("SMTPTemporaryError")
        /\ \A e \in EmailValidationErrors \ {"SMTPTemporaryError"} :
               ApiRaised(e) => ve_result = Returns("False")
        /\ api_result.kind = "return" =>
               ve_result = Returns(IF api_result.val THEN "True" ELSE "False")

\* every host of the list answered RCPT TO with a 4xx: smtp_check raised
\* SMTPTemporaryError and validate_email has returned None
C23_Witness ==
    /\ api_pc = "done"
    /\ ApiRaised("SMTPTemporaryError")
    /\ ve_result = Returns("None")
    /\ Len(events) = 1
    /\ events[1].at = "rcpt"

\* a blacklisted domain: DomainBlacklistedError has become False
C23_FalseWitness ==
    /\ api_pc = "done"
    /\ ApiRaised("DomainBlacklistedError")
    /\ ve_result = Returns("False")

\* an exception that is no EmailValidationError passes through
C23_PassThroughWitness ==
    /\ api_pc = "done"
    /\ ApiRaised("FromAddressFormatError")
    /\ ve_result = Raises("FromAddressFormatError")

(* ------------------------------- C24 ---------------------------------- *)

\* C24 (as stated): validate_email_or_fail never returns False: it
\* returns True, returns None or raises an exception.
C24_NeverReturnsFalse ==
    ApiDone => api_result # Return(FALSE)

\* dns_check returned the empty list, smtp_check had no host to probe and
\* validate_email_or_fail has returned False
C24_FalseForEmptyList ==
    /\ ApiDone
    /\ api_result = Return(FALSE)
    /\ dns_result = DnsReturn(<<>>)
    /\ hosts = <<>>
    /\ events = <<>>
    /\ calls[Len(calls)] = "smtp_check"

\* False is returned for the empty list only: a list with a host ends in
\* True or in an exception
C24_FalseOnlyForEmptyList ==
    (ApiDone /\ api_result = Return(FALSE)) =>
        dns_result = DnsReturn(<<>>) /\ hosts = <<>>

(* ------------------------------- C25 ---------------------------------- *)

\* the probe of the host ended without a verdict: _check_one returned
\* False
MxEvAmbiguous(e) ==
    \/ e.kind = "disconnected"
    \/ e.kind = "reply" /\ e.at # "rcpt"
    \/ e.kind = "reply" /\ e.at = "rcpt" /\ 400 <= e.code /\ e.code < 500

\* check has gone through all its hosts and none has accepted
MxLoopExhausted ==
    /\ MxDone
    /\ mx_records # <<>>
    /\ Len(mx_events) = Len(mx_records)
    /\ \A i \in DOMAIN mx_events : MxEvAmbiguous(mx_events[i])

\* errors of both kinds were recorded and both are to be raised
BothKindsRecorded ==
    /\ DOMAIN communication_errors # {}
    /\ DOMAIN mx_temporary_errors # {}
    /\ raise_communication_errors
    /\ raise_temporary_errors

\* C25: in mx_check's _SMTPChecker.check, when no host accepted and both
\* communication errors and temporary errors were recorded, and both raise
\* flags are set, the error raised is SMTPCommunicationError, never
\* SMTPTemporaryError.
C25_CommunicationErrorsFirst ==
    /\ (MxLoopExhausted /\ BothKindsRecorded) =>
            mx_result = Raises("SMTPCommunicationError")
    /\ (MxDone /\ BothKindsRecorded) =>
            mx_result # Raises("SMTPTemporaryError")

\* the first host answered RCPT TO with 451, the second closed the
\* connection after MAIL FROM: SMTPCommunicationError is raised
C25_Witness ==
    /\ MxLoopExhausted
    /\ BothKindsRecorded
    /\ mx_events = <<Event("rcpt", "reply", 451), Event("mail", "disconnected", 0)>>
    /\ mx_result = Raises("SMTPCommunicationError")

(* ------------------------------- C31 ---------------------------------- *)

\* a DNS query is issued in this step
QueryIssued == Len(queries') = Len(queries) + 1

\* the query issued in this step
IssuedQuery == queries'[Len(queries')]

\* the timeout dns_check was called with: the lifetime of the MX query
CallersTimeout == queries[1].lifetime

\* C31: the DNS timeout is one budget for the whole resolution: the
\* timeout passed to each A/AAAA query is the caller's timeout minus the
\* time the MX query and all earlier address queries have taken; the
\* budget that is left never increases (one that is overdrawn counts as
\* used up, 0); once it is 0 or less no further query is issued, the
\* remaining MX hosts are skipped and the addresses collected so far are
\* returned.
C31_OneBudgetForTheResolution ==
    /\ [][(QueryIssued /\ queries # <<>>) =>
             /\ IssuedQuery.rdtype \in {"AAAA", "A"}
             /\ IssuedQuery.lifetime = CallersTimeout - dns_used]_all_vars
    /\ [][timeout' <= timeout \/ (timeout < 0 /\ timeout' = 0)]_all_vars
    /\ [][timeout <= 0 => queries' = queries]_all_vars
    /\ [][(dns_pc = "loop" /\ timeout <= 0) =>
             (dns_pc' = "done" /\ dns_result' = DnsReturn(resolved))]_all_vars

\* the budget was used up while the first of two MX hosts was resolved:
\* the second host was not asked about and the addresses of the first
\* were returned
C31_Witness ==
    /\ DnsReturned
    /\ timeout <= 0
    /\ dns_used >= CallersTimeout
    /\ Len(records) = 2
    /\ rec_idx = 1
    /\ resolved # <<>>
    /\ dns_result.val = resolved
    /\ \A i \in DOMAIN queries : queries[i].qname # records[2]

(* ------------------------------- C32 ---------------------------------- *)

\* the addresses of an answer that are not in the list yet, in the order
\* of the answer
Fresh(items, list) ==
    SelectSeq(items, LAMBDA x : x \notin {list[i] : i \in DOMAIN list})

\* the position of a name in the cleaned list of MX names
RecordIndex(name) == CHOOSE k \in DOMAIN records : records[k] = name

\* the address queries: all queries but the first, the MX query
AddressQueries == 2..Len(queries)

CallRank(i) ==
    CASE calls[i] = "EmailAddress" -> IF i = 1 THEN 1 ELSE 5
      [] calls[i] = "regex_check" -> 2
      [] calls[i] = "domainlist_check" -> 3
      [] calls[i] = "dns_check" -> 4
      [] calls[i] = "smtp_check" -> 6

Called(c) == \E i \in DOMAIN calls : calls[i] = c

\* nothing was resolved and nothing was probed
NoDnsQuery == dns_pc = "off" /\ queries = <<>>

NoSmtpConnection == pc = "idle" /\ events = <<>> /\ sent = <<>>

\* C33: validate_email_or_fail runs its enabled checks in the order
\* parse, format, blacklist, DNS, SMTP and stops at the first failure: no
\* DNS query is issued for an address that fails the parsing, the format
\* check or the blacklist check, and no SMTP connection is opened when the
\* resolution raised an error.
C33_ChecksInOrderUntilFirstFailure ==
    api_pc # "off" =>
        /\ \A i, j \in DOMAIN calls : i < j => CallRank(i) < CallRank(j)
        /\ Called("regex_check") => check_format
        /\ Called("domainlist_check") => check_blacklist
        /\ Called("dns_check") => (check_dns \/ check_smtp)
        /\ Called("smtp_check") => check_smtp
        /\ (ApiDone /\ api_result.kind = "return") =>
              /\ check_format => Called("regex_check")
              /\ check_blacklist => Called("domainlist_check")
              /\ (check_dns \/ check_smtp) => Called("dns_check")
              /\ check_smtp => Called("smtp_check")
        /\ ~Called("dns_check") => (NoDnsQuery /\ NoSmtpConnection)
        /\ ~Called("smtp_check") => NoSmtpConnection
        /\ (ApiRaised("AddressFormatError") \/ ApiRaised("DomainBlacklistedError"))
              => (~Called("dns_check") /\ NoDnsQuery /\ NoSmtpConnection)
        /\ (ea_pc = "constructed" /\ check_blacklist /\ api_pc # "regex_check"
            /\ domain \in domain_blacklist)
              => (NoDnsQuery /\ NoSmtpConnection)
        /\ (ApiDone /\ dns_result.kind = "raise") =>
              /\ api_result = Raise(dns_result.exc, EmptyDict)
              /\ ~Called("smtp_check")
              /\ NoSmtpConnection

\* all checks were enabled and ran in order, the probe included
C33_Witness ==
    /\ ApiDone
    /\ calls = <<"EmailAddress", "regex_check", "domainlist_check",
                 "dns_check", "EmailAddress", "smtp_check">>
    /\ events # <<>>

\* the domain is blacklisted: the call ended without a DNS query
C33_BlacklistedWitness ==
    /\ ApiDone
    /\ ApiRaised("DomainBlacklistedError")
    /\ calls = <<"EmailAddress", "regex_check", "domainlist_check">>
    /\ NoDnsQuery

(* ------------------------------- C34 ---------------------------------- *)

\* smtp_from_address is given and cannot be parsed: it has no "@"
FromAddressUnparseable ==
    smtp_from_address # <<>> /\ AtSigns(smtp_from_address) = {}

\* C34: an unparseable smtp_from_address makes validate_email_or_fail
\* raise FromAddressFormatError, which is no EmailValidationError, so that
\* validate_email lets it pass instead of returning False; the from
\* address is parsed only after dns_check has returned with check_smtp
\* enabled: with check_smtp disabled or after a DNS failure it is never
\* reported.
C34_FromAddressParsedLast ==
    /\ "FromAddressFormatError" \notin EmailValidationErrors
    /\ (ApiDone /\ dns_pc = "done" /\ dns_result.kind = "return"
        /\ check_smtp /\ FromAddressUnparseable)
          => (ApiRaised("FromAddressFormatError") /\ NoSmtpConnection)
    /\ ApiRaised("FromAddressFormatError") =>
          /\ FromAddressUnparseable
          /\ check_smtp
          /\ dns_pc = "done"
          /\ dns_result.kind = "return"
    /\ (ApiDone /\ (~check_smtp \/ dns_result.kind # "return")) =>
          ~ApiRaised("FromAddressFormatError")
    /\ (api_pc = "done" /\ ApiRaised("FromAddressFormatError")) =>
          ve_result = Raises("FromAddressFormatError")

\* the resolution found a host, the from address has no "@":
\* FromAddressFormatError has passed through validate_email
C34_Witness ==
    /\ api_pc = "done"
    /\ smtp_from_address = <<"a">>
    /\ dns_result.kind = "return"
    /\ dns_result.val # <<>>
    /\ ApiRaised("FromAddressFormatError")
    /\ ve_result = Raises("FromAddressFormatError")
    /\ NoSmtpConnection

\* the same from address is not looked at when the resolution fails
C34_NotReportedWitness ==
    /\ api_pc = "done"
    /\ smtp_from_address = <<"a">>
    /\ check_smtp
    /\ dns_result.kind = "raise"
    /\ ve_result = Returns("False")

(* ====================================================================== *)
(* The blacklist updater: BlacklistUpdater of validate_email/updater.py   *)
(* and DomainListValidator.reload_builtin_blacklist of                    *)
(* validate_email/domainlist_check.py.  Updaters run process(force,       *)
(* callback): the one of setup.py at install time (force, no callback,    *)
(* the installed files are written), the ones of update_builtin_blacklist *)
(* in their thread with the reload as callback.  Readers call the reload  *)
(* themselves.  The threads may belong to one process or to several: the  *)
(* lock is a FileLock object of its own at every use, so that it excludes *)
(* threads as it excludes processes.  A step of the model is one access   *)
(* to the lock, to a file or to the server.  The branch of                *)
(* ENV_IGNORE_UPDATER, in which no updater runs, is left out.             *)
(* ====================================================================== *)

\* the newest version of the list the server publishes
MaxVersion == 2

Updaters == {"u1", "u2"}

Readers == {"main"}

Threads == Updaters \cup Readers

\* the SMTP probe, the resolution and the calls of the entry points are
\* left alone
rest_vars == <<vars, dns_vars, ea_vars, api_vars, mx_vars>>

\* nothing is loaded yet / the list of the given version is loaded;
\* torn: the file was open for writing while it was read
NotLoaded == [state |-> "none", version |-> 0, torn |-> FALSE]

Loaded(v, torn) == [state |-> "loaded", version |-> v, torn |-> torn]

\* before the installation no file exists; after it the installed list
\* and its ETag are there.  No temporary file exists yet.
UpdaterInit ==
    /\ up_pc = [t \in Threads |->
                   IF t \in Updaters THEN "process" ELSE "reload"]
    /\ is_install_time \in [Updaters -> BOOLEAN]
    /\ force \in [Updaters -> BOOLEAN]
    /\ \A u \in Updaters : is_install_time[u] => force[u]
    /\ headers = [u \in Updaters |-> 0]
    /\ response = [u \in Updaters |-> [version |-> 0, etag |-> FALSE]]
    /\ attempt = [u \in Updaters |-> "none"]
    /\ bl_path = [t \in Threads |-> "none"]
    /\ loaded = [t \in Threads |-> NotLoaded]
    /\ lock = "free"
    /\ \E installed \in {NoFile, File(1)} :
          fs = [f \in Paths |->
                   IF f \in {"BLACKLIST_FILEPATH_INSTALLED",
                             "ETAG_FILEPATH_INSTALLED"}
                   THEN installed ELSE NoFile]
    /\ writing = NotWriting
    /\ published = 1
    /\ SmtpOff
    /\ DnsOff
    /\ EaOff
    /\ ApiOff
    /\ MxOff

\* BlacklistUpdater._etag_filepath
EtagFilepath(install) ==
    IF install THEN "ETAG_FILEPATH_INSTALLED" ELSE "ETAG_FILEPATH_TMP"

\* BlacklistUpdater._blacklist_filepath
BlacklistFilepath(install) ==
    IF install THEN "BLACKLIST_FILEPATH_INSTALLED"
    ELSE "BLACKLIST_FILEPATH_TMP"

\* BlacklistUpdater._read_etag: the content of the first of the two ETag
\* files that exists, 0 for an empty one and for none
ReadEtag ==
    IF fs["ETAG_FILEPATH_TMP"].exists
    THEN fs["ETAG_FILEPATH_TMP"].version
    ELSE IF fs["ETAG_FILEPATH_INSTALLED"].exists
         THEN fs["ETAG_FILEPATH_INSTALLED"].version
         ELSE 0

\* BlacklistUpdater._get_headers: the value of If-None-Match, 0 for none
GetHeaders(force_update, install) ==
    IF force_update \/ install THEN 0 ELSE ReadEtag

\* BlacklistUpdater._is_old can be False: the temporary or the installed
\* file exists (and is younger than five days)
CanBeFresh ==
    \/ fs["BLACKLIST_FILEPATH_TMP"].exists
    \/ fs["BLACKLIST_FILEPATH_INSTALLED"].exists

\* (changed: the lock excludes nobody)
LockFreeAlways(holder) == TRUE

\* FileLock.acquire succeeds when nobody holds the lock
LockFree(holder) == holder = "free"

\* (changed: the with statement keeps the lock)
LockAfterWithKept(holder) == holder

\* FileLock.release at the end of the with statement, however it is left
LockAfterWith(holder) == "free"

\* process: "with FileLock(lock_file=LOCK_PATH):"
AcquireProcess(u) ==
    /\ up_pc[u] = "process"
    /\ LockFree(lock)
    /\ lock' = u
    /\ up_pc' = [up_pc EXCEPT ![u] = "_process"]
    /\ UNCHANGED <<force, is_install_time, headers, response, attempt,
                   bl_path, loaded, fs, writing, published>>
    /\ UNCHANGED rest_vars

\* _process: "if not force and not self._is_old: return"
NotOld(u) ==
    /\ up_pc[u] = "_process"
    /\ ~force[u]
    /\ CanBeFresh
    /\ attempt' = [attempt EXCEPT ![u] = "fresh"]
    /\ up_pc' = [up_pc EXCEPT ![u] = "exit"]
    /\ UNCHANGED <<force, is_install_time, headers, response, bl_path,
                   loaded, lock, fs, writing, published>>
    /\ UNCHANGED rest_vars

\* _process: the request with the headers of _get_headers
BuildRequest(u) ==
    /\ up_pc[u] = "_process"
    /\ headers' = [headers EXCEPT
                      ![u] = GetHeaders(force[u], is_install_time[u])]
    /\ up_pc' = [up_pc EXCEPT ![u] = "urlopen"]
    /\ UNCHANGED <<force, is_install_time, response, attempt, bl_path,
                   loaded, lock, fs, writing, published>>
    /\ UNCHANGED rest_vars

\* urlopen returns a response: the server has another version than the
\* request names; the response may lack the ETag header
Download(u) ==
    /\ up_pc[u] = "urlopen"
    /\ headers[u] # published
    /\ \E etag \in BOOLEAN :
          response' = [response EXCEPT
                          ![u] = [version |-> published, etag |-> etag]]
    /\ up_pc' = [up_pc EXCEPT ![u] = "_write_new_file"]
    /\ UNCHANGED <<force, is_install_time, headers, attempt, bl_path,
                   loaded, lock, fs, writing, published>>
    /\ UNCHANGED rest_vars

\* Path.touch: a missing file is created with size zero, an existing one
\* keeps its content
Touch(file) == IF file.exists THEN file ELSE File(0)

\* urlopen raises HTTPError with code 304, the server has the version the
\* request names: "BLACKLIST_FILEPATH_TMP.touch()", "return"
NotModified(u) ==
    /\ up_pc[u] = "urlopen"
    /\ headers[u] # 0
    /\ headers[u] = published
    /\ fs' = [fs EXCEPT !["BLACKLIST_FILEPATH_TMP"] = Touch(@)]
    /\ attempt' = [attempt EXCEPT ![u] = "304"]
    /\ up_pc' = [up_pc EXCEPT ![u] = "exit"]
    /\ UNCHANGED <<force, is_install_time, headers, response, bl_path,
                   loaded, lock, writing, published>>
    /\ UNCHANGED rest_vars

\* urlopen raises another HTTPError ("raise") or an URLError
DownloadFails(u) ==
    /\ up_pc[u] = "urlopen"
    /\ attempt' = [attempt EXCEPT ![u] = "failed"]
    /\ up_pc' = [up_pc EXCEPT ![u] = "raising"]
    /\ UNCHANGED <<force, is_install_time, headers, response, bl_path,
                   loaded, lock, fs, writing, published>>
    /\ UNCHANGED rest_vars

\* _write_new_file: "if 'ETag' in response.headers: self._write_etag(...)"
WriteEtag(u) ==
    /\ up_pc[u] = "_write_new_file"
    /\ fs' = IF response[u].etag
             THEN [fs EXCEPT ![EtagFilepath(is_install_time[u])] =
                                 File(response[u].version)]
             ELSE fs
    /\ up_pc' = [up_pc EXCEPT ![u] = "open"]
    /\ UNCHANGED <<force, is_install_time, headers, response, attempt,
                   bl_path, loaded, lock, writing, published>>
    /\ UNCHANGED rest_vars

\* _write_new_file: "with open(path, 'wb') as fd:" creates or truncates
\* the blacklist file
OpenBlacklist(u) ==
    /\ up_pc[u] = "open"
    /\ fs' = [fs EXCEPT ![BlacklistFilepath(is_install_time[u])] = File(0)]
    /\ writing' = [by |-> u, path |-> BlacklistFilepath(is_install_time[u])]
    /\ up_pc' = [up_pc EXCEPT ![u] = "write"]
    /\ UNCHANGED <<force, is_install_time, headers, response, attempt,
                   bl_path, loaded, lock, published>>
    /\ UNCHANGED rest_vars

\* _write_new_file: "fd.write(response.fp.read())", the file is closed
WriteBody(u) ==
    /\ up_pc[u] = "write"
    /\ fs' = [fs EXCEPT ![writing.path] = File(response[u].version)]
    /\ writing' = NotWriting
    /\ attempt' = [attempt EXCEPT ![u] = "downloaded"]
    /\ up_pc' = [up_pc EXCEPT ![u] = "exit"]
    /\ UNCHANGED <<force, is_install_time, headers, response, bl_path,
                   loaded, lock, published>>
    /\ UNCHANGED rest_vars

\* _write_new_file: response.fp.read() raises, the connection broke; the
\* file is closed as it was opened
ReadFails(u) ==
    /\ up_pc[u] = "write"
    /\ writing' = NotWriting
    /\ attempt' = [attempt EXCEPT ![u] = "interrupted"]
    /\ up_pc' = [up_pc EXCEPT ![u] = "raising"]
    /\ UNCHANGED <<force, is_install_time, headers, response, bl_path,
                   loaded, lock, fs, published>>
    /\ UNCHANGED rest_vars

\* process: the with statement is left, by the return of _process or by
\* its exception, which ends process
ExitWith(u) ==
    /\ up_pc[u] \in {"exit", "raising"}
    /\ lock' = LockAfterWith(lock)
    /\ up_pc' = [up_pc EXCEPT
                    ![u] = IF up_pc[u] = "exit" THEN "callback"
                           ELSE "raised"]
    /\ UNCHANGED <<force, is_install_time, headers, response, attempt,
                   bl_path, loaded, fs, writing, published>>
    /\ UNCHANGED rest_vars

\* the callback process is given: the reload when started by
\* update_builtin_blacklist (domainlist_check.py), none in setup.py
HasCallback(u) == ~is_install_time[u]

\* process: "if callback: callback()"
Callback(u) ==
    /\ up_pc[u] = "callback"
    /\ up_pc' = [up_pc EXCEPT
                    ![u] = IF HasCallback(u) THEN "reload" ELSE "done"]
    /\ UNCHANGED <<force, is_install_time, headers, response, attempt,
                   bl_path, loaded, lock, fs, writing, published>>
    /\ UNCHANGED rest_vars

\* reload_builtin_blacklist: "with FileLock(lock_file=str(LOCK_PATH)):"
AcquireReload(t) ==
    /\ up_pc[t] = "reload"
    /\ LockFree(lock)
    /\ lock' = t
    /\ up_pc' = [up_pc EXCEPT ![t] = "_blacklist_path"]
    /\ UNCHANGED <<force, is_install_time, headers, response, attempt,
                   bl_path, loaded, fs, writing, published>>
    /\ UNCHANGED rest_vars

\* (changed: the temporary file is taken whenever it exists)
BlacklistPathOfIgnoringSize(files) ==
    IF files["BLACKLIST_FILEPATH_TMP"].exists
    THEN "BLACKLIST_FILEPATH_TMP"
    ELSE "BLACKLIST_FILEPATH_INSTALLED"

\* DomainListValidator._blacklist_path: the installed file when the
\* temporary one is missing or has size zero
BlacklistPathOf(files) ==
    IF /\ files["BLACKLIST_FILEPATH_TMP"].exists
       /\ files["BLACKLIST_FILEPATH_TMP"].version # 0
    THEN "BLACKLIST_FILEPATH_TMP"
    ELSE "BLACKLIST_FILEPATH_INSTALLED"

\* _get_blacklist_lines: "bl_path = self._blacklist_path"
BlacklistPath(t) ==
    /\ up_pc[t] = "_blacklist_path"
    /\ bl_path' = [bl_path EXCEPT ![t] = BlacklistPathOf(fs)]
    /\ up_pc' = [up_pc EXCEPT ![t] = "readlines"]
    /\ UNCHANGED <<force, is_install_time, headers, response, attempt,
                   loaded, lock, fs, writing, published>>
    /\ UNCHANGED rest_vars

\* _get_blacklist_lines: the lines of the file, none when it is missing;
\* reload_builtin_blacklist: self.domain_blacklist is set from them
ReadLines(t) ==
    /\ up_pc[t] = "readlines"
    /\ loaded' = [loaded EXCEPT
                     ![t] = Loaded(fs[bl_path[t]].version,
                                   writing.path = bl_path[t])]
    /\ up_pc' = [up_pc EXCEPT ![t] = "release"]
    /\ UNCHANGED <<force, is_install_time, headers, response, attempt,
                   bl_path, lock, fs, writing, published>>
    /\ UNCHANGED rest_vars

\* reload_builtin_blacklist: the with statement is left
ReleaseReload(t) ==
    /\ up_pc[t] = "release"
    /\ lock' = LockAfterWith(lock)
    /\ up_pc' = [up_pc EXCEPT ![t] = "done"]
    /\ UNCHANGED <<force, is_install_time, headers, response, attempt,
                   bl_path, loaded, fs, writing, published>>
    /\ UNCHANGED rest_vars

\* the server publishes the next version of the list
Publish ==
    /\ published < MaxVersion
    /\ published' = published + 1
    /\ UNCHANGED <<up_pc, force, is_install_time, headers, response,
                   attempt, bl_path, loaded, lock, fs, writing>>
    /\ UNCHANGED rest_vars

\* what an updater does next in process and _process
UpdaterStep(u) ==
    \/ AcquireProcess(u)
    \/ NotOld(u)
    \/ BuildRequest(u)
    \/ Download(u)
    \/ NotModified(u)
    \/ DownloadFails(u)
    \/ WriteEtag(u)
    \/ OpenBlacklist(u)
    \/ WriteBody(u)
    \/ ReadFails(u)
    \/ ExitWith(u)
    \/ Callback(u)

\* what a thread does next in reload_builtin_blacklist
ReloadStep(t) ==
    \/ AcquireReload(t)
    \/ BlacklistPath(t)
    \/ ReadLines(t)
    \/ ReleaseReload(t)

\* what one thread does next
ThreadStep(t) == (t \in Updaters /\ UpdaterStep(t)) \/ ReloadStep(t)

UpdaterNext ==
    \/ \E u \in Updaters : UpdaterStep(u)
    \/ \E t \in Threads : ReloadStep(t)
    \/ Publish

UpdaterSpec == UpdaterInit /\ [][UpdaterNext]_all_vars

\* every thread is scheduled, every download and every file access ends;
\* a thread that waits for the lock gets it once it stays free
FairUpdaterSpec ==
    UpdaterSpec /\ \A t \in Threads : WF_all_vars(ThreadStep(t))

\* the thread has ended: process or the reload has returned, or process
\* has raised
Ended(t) == up_pc[t] \in {"done", "raised"}

(* ------------------------------- C35 ---------------------------------- *)

\* the positions inside the with statement of process
InProcess == {"_process", "urlopen", "_write_new_file", "open", "write",
              "exit", "raising"}

\* the positions inside the with statement of reload_builtin_blacklist
InReload == {"_blacklist_path", "readlines", "release"}

\* C35: the blacklist file is written (_process) and read
\* (reload_builtin_blacklist, the choice of the file included) only by
\* the holder of the one file lock: under every interleaving of updaters
\* and readers no reader sees a file that is open for writing, the file a
\* reader has chosen is still the one to read when it reads it, and no
\* two updaters download or write at the same time.
C35_FilesOnlyUnderTheLock ==
    /\ [](\A t \in DOMAIN up_pc :
             up_pc[t] \in InProcess \cup InReload => lock = t)
    /\ [](writing.by # "none" => lock = writing.by)
    /\ [](\A t \in DOMAIN up_pc :
             /\ ~loaded[t].torn
             /\ up_pc[t] = "readlines" =>
                   (bl_path[t] = BlacklistPathOf(fs)
                    /\ writing = NotWriting))
    /\ [](Cardinality({u \in DOMAIN attempt :
                          up_pc[u] \in InProcess}) <= 1)
    /\ [][fs' # fs => (lock \in DOMAIN attempt /\ lock' = lock
                       /\ up_pc[lock] \in InProcess)]_all_vars
    /\ [][loaded' # loaded \/ bl_path' # bl_path =>
             (lock # "free" /\ lock' = lock
              /\ up_pc[lock] \in InReload)]_all_vars

\* an updater has the temporary file open for writing while the other
\* updater and the reader wait for the lock
C35_Witness ==
    /\ up_pc # <<>>
    /\ writing = [by |-> "u1", path |-> "BLACKLIST_FILEPATH_TMP"]
    /\ up_pc["u2"] = "process"
    /\ up_pc["main"] = "reload"

\* the reader reads the file the first updater has written while the
\* second updater waits for the lock
C35_ReaderWitness ==
    /\ up_pc # <<>>
    /\ up_pc["main"] = "readlines"
    /\ bl_path["main"] = "BLACKLIST_FILEPATH_TMP"
    /\ attempt["u1"] = "downloaded"
    /\ up_pc["u2"] = "process"

(* ------------------------------- C36 ---------------------------------- *)

\* the updater has run its callback: the reload has loaded the list
CallbackExecuted(u) == loaded[u].state = "loaded"

\* the update attempts that end in an exception of _process
FailedAttempts == {"failed", "interrupted"}

\* C36: process always executes the callback after the update attempt,
\* whatever its outcome: a new list downloaded, the local file still
\* fresh, a 304 answer, or a download that failed with another HTTP or
\* network error.
C36_CallbackAlwaysExecuted ==
    \A u \in DOMAIN attempt :
       (HasCallback(u) /\ Ended(u)) =>
          (attempt[u] # "none" /\ CallbackExecuted(u))

\* the download has failed: process has ended with the exception, the
\* lock is free and the callback has not been executed
C36_NoCallbackAfterFailure ==
    /\ up_pc # <<>>
    /\ HasCallback("u1")
    /\ attempt["u1"] = "failed"
    /\ up_pc["u1"] = "raised"
    /\ ~CallbackExecuted("u1")
    /\ lock = "free"
    /\ \A t \in Threads \ {"u1"} : Ended(t)

\* as coded: the callback is executed after a download, after a fresh
\* file and after a 304 answer, and is not after a failure
C36_CallbackUnlessRaised ==
    \A u \in DOMAIN attempt :
       (HasCallback(u) /\ Ended(u)) =>
          /\ attempt[u] # "none"
          /\ CallbackExecuted(u) <=> attempt[u] \notin FailedAttempts
          /\ up_pc[u] = "raised" <=> attempt[u] \in FailedAttempts

(* ------------------------------- C37 ---------------------------------- *)

\* the step in which the updater calls its callback
CallbackInvoked(u) == up_pc[u] = "callback" /\ up_pc'[u] = "reload"

C37_BothEnded ==
    /\ up_pc # <<>>
    /\ \A t \in Threads : Ended(t)
    /\ \E u \in Updaters : HasCallback(u) /\ CallbackExecuted(u)
    /\ loaded["main"].state = "loaded"
    /\ lock = "free"

(* ------------------------------- C38 ---------------------------------- *)

\* the version of the list a reload would load from the files: that of
\* the temporary file unless it is missing or empty, else that of the
\* installed file, 0 for no line at all
Effective(files) ==
    IF /\ files["BLACKLIST_FILEPATH_TMP"].exists
       /\ files["BLACKLIST_FILEPATH_TMP"].version > 0
    THEN files["BLACKLIST_FILEPATH_TMP"].version
    ELSE files["BLACKLIST_FILEPATH_INSTALLED"].version

\* the step in which the updater gets the 304 answer
Answered304(u) == attempt[u] # "304" /\ attempt'[u] = "304"

\* the step in which the thread reads the lines of the file
Reads(t) == loaded'[t] # loaded[t]

\* C38: a 304 answer leaves the effective blacklist unchanged, the
\* temporary file is only touched (created with size zero when missing,
\* its content kept otherwise); a later reload loads the installed file
\* when the temporary file is missing or has size zero and the temporary
\* file otherwise, and so never the content of an empty marker file.
C38_NotModifiedKeepsTheList ==
    /\ [][\A u \in DOMAIN attempt : Answered304(u) =>
             /\ Effective(fs') = Effective(fs)
             /\ \A f \in Paths \ {"BLACKLIST_FILEPATH_TMP"} :
                   fs'[f] = fs[f]
             /\ fs'["BLACKLIST_FILEPATH_TMP"].exists
             /\ fs'["BLACKLIST_FILEPATH_TMP"].version =
                   fs["BLACKLIST_FILEPATH_TMP"].version]_all_vars
    /\ [][\A t \in DOMAIN up_pc : Reads(t) =>
             /\ loaded'[t].version = Effective(fs)
             /\ bl_path[t] = "BLACKLIST_FILEPATH_INSTALLED" <=>
                   \/ ~fs["BLACKLIST_FILEPATH_TMP"].exists
                   \/ fs["BLACKLIST_FILEPATH_TMP"].version = 0
             /\ (/\ fs["BLACKLIST_FILEPATH_TMP"].exists
                 /\ fs["BLACKLIST_FILEPATH_TMP"].version = 0
                 /\ fs["BLACKLIST_FILEPATH_INSTALLED"].version > 0)
                   => loaded'[t].version > 0]_all_vars

\* the 304 answer has created the empty temporary file and the callback
\* has loaded the installed list
C38_Witness ==
    /\ up_pc # <<>>
    /\ attempt["u1"] = "304"
    /\ fs["BLACKLIST_FILEPATH_TMP"] = File(0)
    /\ bl_path["u1"] = "BLACKLIST_FILEPATH_INSTALLED"
    /\ loaded["u1"] = Loaded(1, FALSE)
    /\ up_pc["u1"] = "done"

\* the 304 answer has touched the downloaded list, which is loaded again
C38_DownloadedListKept ==
    /\ up_pc # <<>>
    /\ attempt["u1"] = "downloaded"
    /\ attempt["u2"] = "304"
    /\ fs["BLACKLIST_FILEPATH_TMP"] = File(2)
    /\ fs["BLACKLIST_FILEPATH_INSTALLED"] = File(1)
    /\ loaded["u2"] = Loaded(2, FALSE)

(* ------------------------------- C39 ---------------------------------- *)

\* between update steps: no updater is inside _process
BetweenUpdates ==
    \A u \in DOMAIN attempt : up_pc[u] \notin InProcess

\* C39: at every point between update steps, also after an update that
\* failed part-way, the stored ETag identifies the version of the stored
\* blacklist: never the ETag of a newer version next to the list of an
\* older one.
C39_EtagNeverNewerThanList ==
    BetweenUpdates => ReadEtag <= Effective(fs)

\* the download of version 2 broke after its ETag was stored: the list
\* in use is version 1, the next request names version 2, is answered
\* 304 and the reload loads version 1 again
C39_StaleListFrozen ==
    /\ up_pc # <<>>
    /\ attempt["u1"] = "interrupted"
    /\ attempt["u2"] = "304"
    /\ published = 2
    /\ ReadEtag = 2
    /\ Effective(fs) = 1
    /\ loaded["u2"] = Loaded(1, FALSE)
    /\ \A t \in Threads : Ended(t)

\* as coded: the stored ETag is not newer than the list as long as no
\* download was interrupted and no installation ran next to a temporary
\* list
C39_EtagMatchesUninterrupted ==
    (/\ up_pc # <<>>
     /\ BetweenUpdates
     /\ \A u \in Updaters :
           attempt[u] # "interrupted" /\ ~is_install_time[u])
       => ReadEtag <= Effective(fs)

====
